---- MODULE Spec2Model ----
(***************************************************************************)
(* logviewer: the span engine (highlight.rs), the App filter state         *)
(* machine (app.rs), the scroll state of the log (core/log_state.rs) and   *)
(* the address popup of the listener (core/listen_state.rs).               *)
(*                                                                         *)
(* A line of text is a sequence of characters; a character is a string     *)
(* naming it.  Rust strings are UTF-8, so every character occupies         *)
(* Width(c) bytes and str::len(), slicing and regex offsets count bytes.   *)
(* A byte of a text is the pair <<character, k>>, the k-th byte of that    *)
(* character's encoding.                                                   *)
(***************************************************************************)
EXTENDS Integers, Sequences, FiniteSets, TLC

VARIABLES
  app,        \* the fields of App (app.rs)
  source_rx,  \* the events in the channel behind App::source_rx
  text,       \* the line being rendered
  spans,      \* the spans computed for it
  origin,     \* who computed them: a caller, or highlight_line
  cfg,        \* the arguments highlight_line was called with
  result,     \* what apply_highlights returned
  pc,         \* the step of the rendering
  log_state,  \* the fields of LogState (core/log_state.rs)
  last_call,  \* the latest call of a LogState method
  listen_state,  \* the fields of ListenState (core/listen_state.rs)
  listen_call,   \* the latest call of a ListenState method and its result
  scan           \* the locals of the loops of find_all_json, apply_highlights

appvars == <<app, source_rx>>

hlvars == <<text, spans, origin, cfg, result, pc>>

logvars == <<log_state, last_call>>

listenvars == <<listen_state, listen_call>>

corevars == <<log_state, last_call, listen_state, listen_call, scan>>

vars ==
  <<app, source_rx, text, spans, origin, cfg, result, pc, log_state,
    last_call, listen_state, listen_call, scan>>

----------------------------------------------------------------------------
(* Characters and their UTF-8 encoding                                     *)

\* "@e" stands for U+00E9 (2 bytes), "@j" for U+65E5 (3 bytes); both are
\* letters.  "@>" stands for U+2192, an arrow (3 bytes, not a word character).
Width(c) ==
  CASE c = "@e" -> 2
    [] c = "@j" -> 3
    [] c = "@>" -> 3
    [] OTHER -> 1

Min(a, b) == IF a <= b THEN a ELSE b

RECURSIVE SumWidth(_, _)
\* number of bytes of the first n characters of t
SumWidth(t, n) ==
  IF n = 0 THEN 0 ELSE SumWidth(t, n - 1) + Width(t[n])

\* str::len(): the length of the text in bytes
ByteLen(t) == SumWidth(t, Len(t))

RECURSIVE CharBytes(_, _)
\* the bytes k..Width(c) of character c
CharBytes(c, k) ==
  IF k > Width(c) THEN <<>> ELSE <<(<<c, k>>)>> \o CharBytes(c, k + 1)

RECURSIVE Bytes(_)
\* the UTF-8 encoding of a text
Bytes(t) ==
  IF t = <<>> THEN <<>> ELSE CharBytes(Head(t), 1) \o Bytes(Tail(t))

\* a byte offset 0..len at which a str may be sliced
IsCharBoundary(bs, off) ==
  \/ off = 0
  \/ off = Len(bs)
  \/ (off > 0 /\ off < Len(bs) /\ bs[off + 1][2] = 1)

----------------------------------------------------------------------------
(* highlight.rs: apply_highlights                                          *)

\* A mutation of char_to_byte_pos: the character offset is used as a byte
\* offset.
char_to_byte_pos_as_bytes(t, char_pos) ==
  Min(char_pos, ByteLen(t))

\* text.char_indices().nth(char_pos).map(|(i, _)| i)
\*     .unwrap_or(text.len()).min(text.len())
char_to_byte_pos(t, char_pos) ==
  Min(IF char_pos < Len(t) THEN SumWidth(t, char_pos) ELSE ByteLen(t),
      ByteLen(t))

\* A mutation of StyleWins: a strictly greater priority is needed.
StyleWinsStrict(span_priority, current_priority) ==
  span_priority > current_priority

\* A mutation of StyleWins: every span overwrites.
StyleWinsAlways(span_priority, current_priority) ==
  TRUE

\* if span.priority >= style_at[i].1
StyleWins(span_priority, current_priority) ==
  span_priority >= current_priority

\* vec![(HighlightStyle::None, 0); text.len()]
InitStyleAt(t) == [i \in 1..ByteLen(t) |-> [style |-> "None", priority |-> 0]]

\* One iteration of `for span in spans`: the table after the span, and
\* whether an index start..end fell outside the table (a panic).
ApplySpan(t, st, span) ==
  LET start == char_to_byte_pos(t, span.start)
      end   == Min(char_to_byte_pos(t, span.end), ByteLen(t))
  IN  [ panic |-> st.panic \/ (\E i \in start..(end - 1) : i >= ByteLen(t)),
        style_at |->
          [ i \in 1..ByteLen(t) |->
              IF /\ start <= i - 1
                 /\ i - 1 < end
                 /\ StyleWins(span.priority, st.style_at[i].priority)
              THEN [style |-> span.style, priority |-> span.priority]
              ELSE st.style_at[i] ] ]

RECURSIVE ApplySpans(_, _, _)
\* for span in spans { ... }
ApplySpans(t, st, ss) ==
  IF ss = <<>> THEN st
  ELSE ApplySpans(t, ApplySpan(t, st, Head(ss)), Tail(ss))

\* A mutation of RunEnd: a run ends after its first entry.
RunEndAtOnce(style_at, current_style, end) == end

RECURSIVE RunEnd(_, _, _)
\* while end < text.len() && style_at[end].0 == current_style { end += 1 }
RunEnd(style_at, current_style, end) ==
  IF end < Len(style_at) /\ style_at[end + 1].style = current_style
  THEN RunEnd(style_at, current_style, end + 1)
  ELSE end

RECURSIVE CoalesceSkipping(_, _, _, _)
\* A mutation of Coalesce: the next run starts one byte too late.
CoalesceSkipping(bs, style_at, pos, acc) ==
  IF ~(pos < Len(bs)) THEN acc
  ELSE LET current_style == style_at[pos + 1].style
           end == RunEnd(style_at, current_style, pos + 1)
       IN  CoalesceSkipping(bs, style_at, end + 1,
             [ panic |-> acc.panic,
               runs  |-> Append(acc.runs,
                           [ text  |-> SubSeq(bs, pos + 1, end),
                             style |-> current_style ]) ])

RECURSIVE Coalesce(_, _, _, _)
\* while pos < text.len() { ...; result.push((text[pos..end].to_string(),
\* current_style)); pos = end; }   A slice off a character boundary panics.
Coalesce(bs, style_at, pos, acc) ==
  IF ~(pos < Len(bs)) THEN acc
  ELSE LET current_style == style_at[pos + 1].style
           end == RunEnd(style_at, current_style, pos + 1)
       IN  IF ~(IsCharBoundary(bs, pos) /\ IsCharBoundary(bs, end))
           THEN [panic |-> TRUE, runs |-> acc.runs]
           ELSE Coalesce(bs, style_at, end,
                  [ panic |-> acc.panic,
                    runs  |-> Append(acc.runs,
                                [ text  |-> SubSeq(bs, pos + 1, end),
                                  style |-> current_style ]) ])

\* one iteration of `while pos < text.len()`: pos and the result after it
CoalesceStepOf(bs, style_at, pos, acc) ==
  LET current_style == style_at[pos + 1].style
      end == RunEnd(style_at, current_style, pos + 1)
  IN  IF ~(IsCharBoundary(bs, pos) /\ IsCharBoundary(bs, end))
      THEN [pos |-> pos, acc |-> [panic |-> TRUE, runs |-> acc.runs]]
      ELSE [ pos |-> end,
             acc |-> [ panic |-> acc.panic,
                       runs  |-> Append(acc.runs,
                                   [ text  |-> SubSeq(bs, pos + 1, end),
                                     style |-> current_style ]) ] ]

\* pub fn apply_highlights(text: &str, spans: &[Span])
\*     -> Vec<(String, HighlightStyle)>
apply_highlights(t, ss) ==
  IF ss = <<>>
  THEN [panic |-> FALSE, runs |-> <<[text |-> Bytes(t), style |-> "None"]>>]
  ELSE LET st == ApplySpans(t, [panic |-> FALSE, style_at |-> InitStyleAt(t)], ss)
       IN  IF st.panic
           THEN [panic |-> TRUE, runs |-> <<>>]
           ELSE Coalesce(Bytes(t), st.style_at, 0,
                         [panic |-> FALSE, runs |-> <<>>])

----------------------------------------------------------------------------
(* str operations used by highlight.rs; offsets are byte offsets           *)

\* the number of characters before byte offset off (a character boundary)
CharIndexAt(t, off) == CHOOSE n \in 0..Len(t) : SumWidth(t, n) = off

\* &text[from..]
StrFrom(t, from) == SubSeq(t, CharIndexAt(t, from) + 1, Len(t))

\* &text[from..to]
StrSlice(t, from, to) ==
  SubSeq(t, CharIndexAt(t, from) + 1, CharIndexAt(t, to))

StartsWith(t, pat) ==
  Len(pat) <= Len(t) /\ SubSeq(t, 1, Len(pat)) = pat

\* the character offsets at which pat occurs in t
Occurrences(t, pat) ==
  {i \in 0..(Len(t) - Len(pat)) : SubSeq(t, i + 1, i + Len(pat)) = pat}

\* str::find(&pat): the byte offset of the first occurrence, -1 for None
StrFind(t, pat) ==
  IF Occurrences(t, pat) = {} THEN -1
  ELSE SumWidth(t, CHOOSE i \in Occurrences(t, pat) :
                     \A k \in Occurrences(t, pat) : i <= k)

\* str::find(|c| c == '{' || c == '['): byte offset of the first such
\* character, -1 for None
StrFindBracket(t) ==
  LET P == {i \in 1..Len(t) : t[i] \in {"{", "["}}
  IN  IF P = {} THEN -1
      ELSE SumWidth(t, (CHOOSE i \in P : \A k \in P : i <= k) - 1)

IsWhitespace(c) == c \in {" ", "\t", "\n", "\r"}

RECURSIVE TrimStart(_)
\* str::trim_start()
TrimStart(t) ==
  IF t # <<>> /\ IsWhitespace(Head(t)) THEN TrimStart(Tail(t)) ELSE t

RECURSIVE TrimEnd(_)
\* str::trim_end()
TrimEnd(t) ==
  IF t # <<>> /\ IsWhitespace(t[Len(t)])
  THEN TrimEnd(SubSeq(t, 1, Len(t) - 1))
  ELSE t

\* str::trim()
Trim(t) == TrimEnd(TrimStart(t))

----------------------------------------------------------------------------
(* serde_json: one streaming parse of a Value.  Positions p are 1-based    *)
(* character indices into t.  The texts of the model hold no escapes,      *)
(* signs, fractions or exponents, which this parser rejects.               *)

IsDigit(c) == c \in {"0", "1", "2", "3", "4", "5", "6", "7", "8", "9"}

\* the letters and digits of the model's texts, in code point order
KeyChars ==
  <<"0", "1", "2", "3", "4", "5", "6", "7", "8", "9", "A", "B",
    "C", "D", "E", "F", "G", "H", "I", "J", "K", "L", "M", "N",
    "O", "P", "Q", "R", "S", "T", "U", "V", "W", "X", "Y", "Z",
    "a", "b", "c", "d", "e", "f", "g", "h", "i", "j", "k", "l",
    "m", "n", "o", "p", "q", "r", "s", "t", "u", "v", "w", "x",
    "y", "z", "@e", "@j">>

Rank(c) ==
  IF \E i \in 1..Len(KeyChars) : KeyChars[i] = c
  THEN CHOOSE i \in 1..Len(KeyChars) : KeyChars[i] = c
  ELSE 0

RECURSIVE KeyLess(_, _)
\* String's Ord, the order of the keys of serde_json::Map
KeyLess(a, b) ==
  IF b = <<>> THEN FALSE
  ELSE IF a = <<>> THEN TRUE
  ELSE IF Rank(Head(a)) # Rank(Head(b)) THEN Rank(Head(a)) < Rank(Head(b))
  ELSE KeyLess(Tail(a), Tail(b))

RECURSIVE MapInsert(_, _, _)
\* Map::insert: a later duplicate key replaces the value, keys stay ordered
MapInsert(members, key, val) ==
  IF members = <<>> THEN <<[key |-> key, val |-> val]>>
  ELSE IF Head(members).key = key
       THEN <<[key |-> key, val |-> val]>> \o Tail(members)
  ELSE IF KeyLess(key, Head(members).key)
       THEN <<[key |-> key, val |-> val]>> \o members
  ELSE <<Head(members)>> \o MapInsert(Tail(members), key, val)

ParseError == [ok |-> FALSE, val |-> [k |-> "Null"], pos |-> 0]

ParseOk(v, p) == [ok |-> TRUE, val |-> v, pos |-> p]

RECURSIVE SkipWs(_, _)
SkipWs(t, p) ==
  IF p <= Len(t) /\ IsWhitespace(t[p]) THEN SkipWs(t, p + 1) ELSE p

RECURSIVE DigitsEnd(_, _)
\* the position after the run of digits that starts at p
DigitsEnd(t, p) ==
  IF p <= Len(t) /\ IsDigit(t[p]) THEN DigitsEnd(t, p + 1) ELSE p

\* a JSON integer at p: no leading zero, no fraction or exponent
ParseNumber(t, p) ==
  LET q == IF t[p] = "0" THEN p + 1 ELSE DigitsEnd(t, p)
  IN  IF q <= Len(t) /\ (IsDigit(t[q]) \/ t[q] \in {".", "e", "E"})
      THEN ParseError
      ELSE ParseOk([k |-> "Number", n |-> SubSeq(t, p, q - 1)], q)

\* a JSON string whose opening quote is at p
ParseString(t, p) ==
  LET Q == {q \in (p + 1)..Len(t) : t[q] = "\""}
  IN  IF Q = {} THEN ParseError
      ELSE LET q == CHOOSE q \in Q : \A r \in Q : q <= r
           IN  IF \E i \in (p + 1)..(q - 1) : t[i] = "\\"
               THEN ParseError
               ELSE ParseOk([k |-> "String", s |-> SubSeq(t, p + 1, q - 1)],
                            q + 1)

ParseIdent(t, p, word, v) ==
  IF p + Len(word) - 1 <= Len(t) /\ SubSeq(t, p, p + Len(word) - 1) = word
  THEN ParseOk(v, p + Len(word))
  ELSE ParseError

RECURSIVE ParseValue(_, _)
RECURSIVE ParseArrayItems(_, _, _)
RECURSIVE ParseObjectMembers(_, _, _)

\* Deserializer::parse_any
ParseValue(t, p0) ==
  LET p == SkipWs(t, p0)
  IN  IF p > Len(t) THEN ParseError
      ELSE CASE t[p] = "n" ->
                  ParseIdent(t, p, <<"n", "u", "l", "l">>, [k |-> "Null"])
             [] t[p] = "t" ->
                  ParseIdent(t, p, <<"t", "r", "u", "e">>,
                             [k |-> "Bool", b |-> TRUE])
             [] t[p] = "f" ->
                  ParseIdent(t, p, <<"f", "a", "l", "s", "e">>,
                             [k |-> "Bool", b |-> FALSE])
             [] IsDigit(t[p]) -> ParseNumber(t, p)
             [] t[p] = "\"" -> ParseString(t, p)
             [] t[p] = "[" ->
                  LET q == SkipWs(t, p + 1)
                  IN  IF q <= Len(t) /\ t[q] = "]"
                      THEN ParseOk([k |-> "Array", items |-> <<>>], q + 1)
                      ELSE ParseArrayItems(t, q, <<>>)
             [] t[p] = "{" ->
                  LET q == SkipWs(t, p + 1)
                  IN  IF q <= Len(t) /\ t[q] = "}"
                      THEN ParseOk([k |-> "Object", members |-> <<>>], q + 1)
                      ELSE ParseObjectMembers(t, q, <<>>)
             [] OTHER -> ParseError

\* the elements of an array from p on: value ( ',' value )* ']'
ParseArrayItems(t, p, items) ==
  LET r == ParseValue(t, p)
  IN  IF ~r.ok THEN ParseError
      ELSE LET q == SkipWs(t, r.pos)
           IN  IF q > Len(t) THEN ParseError
               ELSE IF t[q] = "]"
                    THEN ParseOk([k |-> "Array",
                                  items |-> Append(items, r.val)], q + 1)
               ELSE IF t[q] = ","
                    THEN ParseArrayItems(t, q + 1, Append(items, r.val))
               ELSE ParseError

\* the members of an object from p on: string ':' value ( ',' ... )* '}'
ParseObjectMembers(t, p0, members) ==
  LET p == SkipWs(t, p0)
  IN  IF p > Len(t) \/ t[p] # "\"" THEN ParseError
      ELSE LET key == ParseString(t, p)
           IN  IF ~key.ok THEN ParseError
               ELSE LET c == SkipWs(t, key.pos)
                    IN  IF c > Len(t) \/ t[c] # ":" THEN ParseError
                        ELSE LET r == ParseValue(t, c + 1)
                             IN  IF ~r.ok THEN ParseError
                                 ELSE LET q == SkipWs(t, r.pos)
                                          m == MapInsert(members, key.val.s, r.val)
                                      IN  IF q > Len(t) THEN ParseError
                                          ELSE IF t[q] = "}"
                                               THEN ParseOk([k |-> "Object",
                                                             members |-> m], q + 1)
                                          ELSE IF t[q] = ","
                                               THEN ParseObjectMembers(t, q + 1, m)
                                          ELSE ParseError

\* Deserializer::from_slice(bytes).into_iter::<Value>().next() with
\* stream.byte_offset(): the value and the number of bytes consumed
StreamNext(t) ==
  LET r == ParseValue(t, 1)
  IN  IF r.ok
      THEN [ok |-> TRUE, value |-> r.val, end |-> SumWidth(t, r.pos - 1)]
      ELSE [ok |-> FALSE, value |-> r.val, end |-> 0]

----------------------------------------------------------------------------
(* highlight.rs: the embedded-structure detector                           *)

Quoted(w) == <<"\"">> \o w \o <<"\"">>

MkSpan(start, end, style, priority) ==
  [start |-> start, end |-> end, style |-> style, priority |-> priority]

RECURSIVE find_all_json_from_overlapping(_, _, _)
\* A mutation of find_all_json_from: after a success the scan resumes one
\* character after the opening bracket.
find_all_json_from_overlapping(t, search_start, results) ==
  LET pos == StrFindBracket(StrFrom(t, search_start))
  IN  IF pos = -1 THEN results
      ELSE LET abs_pos == search_start + pos
               next == StreamNext(StrFrom(t, abs_pos))
           IN  IF next.ok /\ next.end > 1
               THEN find_all_json_from_overlapping(t, abs_pos + 1,
                      Append(results, [start |-> abs_pos,
                                       value |-> next.value,
                                       len   |-> next.end]))
               ELSE find_all_json_from_overlapping(t, abs_pos + 1, results)

RECURSIVE find_all_json_from(_, _, _)
\* the loop of find_all_json from search_start on
find_all_json_from(t, search_start, results) ==
  LET pos == StrFindBracket(StrFrom(t, search_start))
  IN  IF pos = -1 THEN results
      ELSE LET abs_pos == search_start + pos
               next == StreamNext(StrFrom(t, abs_pos))
           IN  IF next.ok /\ next.end > 1
               THEN find_all_json_from(t, abs_pos + next.end,
                      Append(results, [start |-> abs_pos,
                                       value |-> next.value,
                                       len   |-> next.end]))
               ELSE find_all_json_from(t, abs_pos + 1, results)

\* fn find_all_json(text: &str) -> Vec<(usize, Value, usize)>
find_all_json(t) == find_all_json_from(t, 0, <<>>)

\* while let Some(pos) = text[search_start..].find(..): the loop goes on
find_all_json_continues(t, search_start) ==
  StrFindBracket(StrFrom(t, search_start)) # -1

\* let abs_pos = search_start + pos
find_all_json_abs_pos(t, search_start) ==
  search_start + StrFindBracket(StrFrom(t, search_start))

\* stream.next() on &text[abs_pos..], for every bracket of the line
StreamAt(t) ==
  [ abs_pos \in {SumWidth(t, k - 1) :
                  k \in {i \in 1..Len(t) : t[i] \in {"{", "["}}} |->
      StreamNext(StrFrom(t, abs_pos)) ]

\* A mutation of find_all_json_step: after a failed parse the scan resumes
\* at the bracket itself.
find_all_json_step_stuck(abs_pos, next, results) ==
  IF next.ok /\ next.end > 1
  THEN [ search_start |-> abs_pos + next.end,
         results |-> Append(results, [start |-> abs_pos,
                                      value |-> next.value,
                                      len   |-> next.end]) ]
  ELSE [search_start |-> abs_pos, results |-> results]

\* the body of the loop of find_all_json once the stream has answered next
\* at abs_pos: search_start and results after the iteration
find_all_json_step(abs_pos, next, results) ==
  IF next.ok /\ next.end > 1
  THEN [ search_start |-> abs_pos + next.end,
         results |-> Append(results, [start |-> abs_pos,
                                      value |-> next.value,
                                      len   |-> next.end]) ]
  ELSE [search_start |-> abs_pos + 1, results |-> results]

\* fn find_json_key(text: &str, key: &str) -> Option<usize>; -1 for None
find_json_key(t, key) ==
  LET pattern == Quoted(key)
      pos == StrFind(t, pattern)
  IN  IF pos = -1 THEN -1
      ELSE IF StartsWith(TrimStart(StrFrom(t, pos + ByteLen(pattern))), <<":">>)
           THEN pos
           ELSE -1

RECURSIVE find_json_string_from_first(_, _, _)
\* A mutation of find_json_string_from: the first occurrence is taken
\* whether or not a colon follows it.
find_json_string_from_first(t, pattern, search_start) ==
  LET pos == StrFind(StrFrom(t, search_start), pattern)
  IN  IF pos = -1 THEN -1 ELSE search_start + pos

RECURSIVE find_json_string_from(_, _, _)
\* the loop of find_json_string from search_start on
find_json_string_from(t, pattern, search_start) ==
  LET pos == StrFind(StrFrom(t, search_start), pattern)
  IN  IF pos = -1 THEN -1
      ELSE LET abs_pos == search_start + pos
           IN  IF ~StartsWith(TrimStart(StrFrom(t, abs_pos + ByteLen(pattern))),
                              <<":">>)
               THEN abs_pos
               ELSE find_json_string_from(t, pattern, abs_pos + 1)

\* A mutation of find_json_string: the last occurrence that no colon
\* follows is taken.
find_json_string_last(t, s) ==
  LET P == {i \in Occurrences(t, Quoted(s)) :
              ~StartsWith(TrimStart(SubSeq(t, i + Len(s) + 3, Len(t))), <<":">>)}
  IN  IF P = {} THEN -1
      ELSE SumWidth(t, CHOOSE i \in P : \A k \in P : k <= i)

\* fn find_json_string(text: &str, s: &str) -> Option<usize>; -1 for None
find_json_string(t, s) == find_json_string_from(t, Quoted(s), 0)

RECURSIVE highlight_json_value(_, _, _, _)
RECURSIVE highlight_json_members(_, _, _, _)
RECURSIVE highlight_json_items(_, _, _, _)

\* Value::Object(map) => for (key, val) in map { ... }
highlight_json_members(t, members, base_offset, ss) ==
  IF members = <<>> THEN ss
  ELSE LET key == Head(members).key
           key_pos == find_json_key(t, key)
           ss1 == IF key_pos # -1
                  THEN Append(ss, MkSpan(base_offset + key_pos,
                                         base_offset + key_pos + ByteLen(key) + 2,
                                         "JsonKey", 50))
                  ELSE ss
       IN  highlight_json_members(t, Tail(members), base_offset,
             highlight_json_value(t, Head(members).val, base_offset, ss1))

\* Value::Array(arr) => for val in arr { ... }
highlight_json_items(t, items, base_offset, ss) ==
  IF items = <<>> THEN ss
  ELSE highlight_json_items(t, Tail(items), base_offset,
         highlight_json_value(t, Head(items), base_offset, ss))

\* fn highlight_json_value(text, value, base_offset, spans)
highlight_json_value(t, value, base_offset, ss) ==
  CASE value.k = "Object" ->
         highlight_json_members(t, value.members, base_offset, ss)
    [] value.k = "Array" ->
         highlight_json_items(t, value.items, base_offset, ss)
    [] value.k = "String" ->
         LET pos == find_json_string(t, value.s)
         IN  IF pos # -1
             THEN Append(ss, MkSpan(base_offset + pos,
                                    base_offset + pos + ByteLen(value.s) + 2,
                                    "JsonString", 50))
             ELSE ss
    [] value.k = "Number" ->
         LET pos == StrFind(t, value.n)
         IN  IF pos # -1
             THEN Append(ss, MkSpan(base_offset + pos,
                                    base_offset + pos + ByteLen(value.n),
                                    "JsonNumber", 50))
             ELSE ss
    [] value.k = "Bool" ->
         LET b_str == IF value.b THEN <<"t", "r", "u", "e">>
                      ELSE <<"f", "a", "l", "s", "e">>
             pos == StrFind(t, b_str)
         IN  IF pos # -1
             THEN Append(ss, MkSpan(base_offset + pos,
                                    base_offset + pos + ByteLen(b_str),
                                    "JsonBool", 50))
             ELSE ss
    [] value.k = "Null" ->
         LET pos == StrFind(t, <<"n", "u", "l", "l">>)
         IN  IF pos # -1
             THEN Append(ss, MkSpan(base_offset + pos, base_offset + pos + 4,
                                    "JsonNull", 50))
             ELSE ss

RECURSIVE highlight_json_objects_whole_line(_, _, _)
\* A mutation of highlight_json_objects: the tokens are searched for in the
\* whole line, not in the region of the value.
highlight_json_objects_whole_line(t, json_objects, ss) ==
  IF json_objects = <<>> THEN ss
  ELSE LET o == Head(json_objects)
       IN  highlight_json_objects_whole_line(t, Tail(json_objects),
             highlight_json_value(t, o.value, o.start, ss))

RECURSIVE highlight_json_objects(_, _, _)
\* for (json_start, value, json_end) in json_objects { ... }
highlight_json_objects(t, json_objects, ss) ==
  IF json_objects = <<>> THEN ss
  ELSE LET o == Head(json_objects)
           json_str == StrSlice(t, o.start, o.start + o.len)
       IN  highlight_json_objects(t, Tail(json_objects),
             highlight_json_value(json_str, o.value, o.start, ss))

\* fn highlight_json(text: &str) -> Option<Vec<Span>>; None is <<>>, which
\* highlight_line treats alike
highlight_json(t) ==
  LET json_objects == find_all_json(t)
  IN  IF json_objects = <<>> THEN <<>>
      ELSE highlight_json_objects(t, json_objects, <<>>)

----------------------------------------------------------------------------
(* The regex crate, as far as HEURISTIC_RULES uses it.  Matching is over   *)
(* characters; Match::start() and Match::end() are byte offsets.           *)

UpperCase == <<"A", "B", "C", "D", "E", "F", "G", "H", "I", "J", "K", "L", "M", "N", "O", "P", "Q", "R", "S", "T", "U", "V", "W", "X", "Y", "Z">>

LowerCase == <<"a", "b", "c", "d", "e", "f", "g", "h", "i", "j", "k", "l", "m", "n", "o", "p", "q", "r", "s", "t", "u", "v", "w", "x", "y", "z">>

\* (?i): simple case folding of a character
Fold(c) ==
  IF \E i \in 1..Len(UpperCase) : UpperCase[i] = c
  THEN LowerCase[CHOOSE i \in 1..Len(UpperCase) : UpperCase[i] = c]
  ELSE c

\* the characters of the model's texts that are not \w
NonWordChars ==
  {" ", "\t", "\n", "\r", "[", "]", "{", "}", "\"", ":", ",", "-", ".", "(",
   ")", "/", "@>"}

IsWordChar(c) == c \notin NonWordChars

\* \b at character offset i (between t[i] and t[i + 1])
WordBoundary(t, i) ==
  (i >= 1 /\ IsWordChar(t[i])) # (i < Len(t) /\ IsWordChar(t[i + 1]))

\* the word w, case-folded, at character offset p
FoldedAt(t, p, w) ==
  /\ p + Len(w) <= Len(t)
  /\ \A i \in 1..Len(w) : Fold(t[p + i]) = w[i]

\* (?i)\b(w1|w2|...)\b at character offset p: the end offset of the first
\* alternative that matches, -1 when none does
WordsMatchAt(t, p, alts) ==
  LET M == {a \in 1..Len(alts) :
              /\ WordBoundary(t, p)
              /\ FoldedAt(t, p, alts[a])
              /\ WordBoundary(t, p + Len(alts[a]))}
  IN  IF M = {} THEN -1
      ELSE p + Len(alts[CHOOSE a \in M : \A b \in M : a <= b])

\* \[[^\]]+\] at character offset p
BracketMatchAt(t, p) ==
  IF ~(p < Len(t) /\ t[p + 1] = "[") THEN -1
  ELSE LET Q == {q \in (p + 2)..Len(t) : t[q] = "]"}
       IN  IF Q = {} THEN -1
           ELSE LET q == CHOOSE q \in Q : \A r \in Q : q <= r
                IN  IF q > p + 2 THEN q ELSE -1

ClassMatches(class, c) ==
  CASE class = "\\d" -> c \in {"0", "1", "2", "3", "4", "5", "6", "7", "8", "9"}
    [] class = "[T ]" -> c \in {"T", " "}
    [] OTHER -> c = class

\* a fixed-length sequence of character classes at character offset p
PatternMatchAt(t, p, pat) ==
  IF /\ p + Len(pat) <= Len(t)
     /\ \A i \in 1..Len(pat) : ClassMatches(pat[i], t[p + i])
  THEN p + Len(pat)
  ELSE -1

\* Regex::find_at for one rule, anchored at character offset p
RuleMatchAt(t, p, rule) ==
  CASE rule.kind = "words" -> WordsMatchAt(t, p, rule.alts)
    [] rule.kind = "bracket" -> BracketMatchAt(t, p)
    [] rule.kind = "pattern" -> PatternMatchAt(t, p, rule.alts)

RECURSIVE find_iter(_, _, _, _)
\* Regex::find_iter: the successive non-overlapping matches from character
\* offset p on, as <<m.start(), m.end()>> in bytes
find_iter(t, p, rule, acc) ==
  IF p >= Len(t) THEN acc
  ELSE LET e == RuleMatchAt(t, p, rule)
       IN  IF e = -1 THEN find_iter(t, p + 1, rule, acc)
           ELSE find_iter(t, e, rule,
                          Append(acc, <<SumWidth(t, p), SumWidth(t, e)>>))

\* static HEURISTIC_RULES
HEURISTIC_RULES ==
  << [kind |-> "words", style |-> "Error",
      alts |-> <<<<"e", "r", "r", "o", "r">>, <<"e", "r", "r">>, <<"f", "a", "t", "a", "l">>, <<"f", "a", "i", "l", "e", "d">>, <<"f", "a", "i", "l">>, <<"p", "a", "n", "i", "c">>>>],
     [kind |-> "words", style |-> "Warning",
      alts |-> <<<<"w", "a", "r", "n", "i", "n", "g">>, <<"w", "a", "r", "n">>>>],
     [kind |-> "words", style |-> "Info",
      alts |-> <<<<"i", "n", "f", "o">>>>],
     [kind |-> "words", style |-> "Debug",
      alts |-> <<<<"d", "e", "b", "u", "g">>, <<"t", "r", "a", "c", "e">>>>],
     [kind |-> "bracket", style |-> "Bracket", alts |-> <<>>],
     [kind |-> "pattern", style |-> "Timestamp",
      alts |-> <<"\\d", "\\d", "\\d", "\\d", "-", "\\d", "\\d", "-", "\\d", "\\d", "[T ]", "\\d", "\\d", ":", "\\d", "\\d", ":", "\\d", "\\d">>],
     [kind |-> "pattern", style |-> "Timestamp",
      alts |-> <<"\\d", "\\d", ":", "\\d", "\\d", ":", "\\d", "\\d">>] >>

----------------------------------------------------------------------------
(* The filter expression language (crate::filter): the lexer, the parser,  *)
(* matches and find_all_matches, after sections 3 and 4.1 of the design.   *)
(* Queries of the model hold no /regex/ literal.                           *)

Literal(pat) == [k |-> "Literal", pat |-> pat]
And(l, r) == [k |-> "And", l |-> l, r |-> r]
Or(l, r) == [k |-> "Or", l |-> l, r |-> r]
Not(e) == [k |-> "Not", inner |-> e]
Group(e) == [k |-> "Group", inner |-> e]

\* Option::<FilterExpr>::None
NoExpr == [k |-> "None"]

FoldAll(w) == [i \in 1..Len(w) |-> Fold(w[i])]

Tok(kind, w) == [t |-> kind, w |-> w]

\* AND, OR and NOT are keywords in any case; any other bare word is a literal
WordToken(w) ==
  CASE FoldAll(w) = <<"a", "n", "d">> -> Tok("and", <<>>)
    [] FoldAll(w) = <<"o", "r">> -> Tok("or", <<>>)
    [] FoldAll(w) = <<"n", "o", "t">> -> Tok("not", <<>>)
    [] OTHER -> Tok("lit", FoldAll(w))

RECURSIVE BareWordEnd(_, _)
\* the index after the run of non-space, non-parenthesis characters at i
BareWordEnd(q, i) ==
  IF i <= Len(q) /\ ~IsWhitespace(q[i]) /\ q[i] \notin {"(", ")"}
  THEN BareWordEnd(q, i + 1)
  ELSE i

RECURSIVE Lex(_, _, _)
\* the tokens of the query from index i on; ok is FALSE on an unterminated
\* quote or an empty atom
Lex(q, i, acc) ==
  IF i > Len(q) THEN [ok |-> TRUE, toks |-> acc]
  ELSE IF IsWhitespace(q[i]) THEN Lex(q, i + 1, acc)
  ELSE IF q[i] = "(" THEN Lex(q, i + 1, Append(acc, Tok("lp", <<>>)))
  ELSE IF q[i] = ")" THEN Lex(q, i + 1, Append(acc, Tok("rp", <<>>)))
  ELSE IF q[i] = "-" THEN Lex(q, i + 1, Append(acc, Tok("not", <<>>)))
  ELSE IF q[i] = "\""
       THEN LET C == {j \in (i + 1)..Len(q) : q[j] = "\""}
            IN  IF C = {} \/ (i + 1) \in C
                THEN [ok |-> FALSE, toks |-> acc]
                ELSE LET j == CHOOSE j \in C : \A m \in C : j <= m
                     IN  Lex(q, j + 1,
                             Append(acc,
                                    Tok("lit", FoldAll(SubSeq(q, i + 1, j - 1)))))
  ELSE LET j == BareWordEnd(q, i)
       IN  Lex(q, j, Append(acc, WordToken(SubSeq(q, i, j - 1))))

PErr == [ok |-> FALSE, expr |-> NoExpr, rest |-> <<>>]

POk(e, rest) == [ok |-> TRUE, expr |-> e, rest |-> rest]

RECURSIVE ParseOrTerm(_)
RECURSIVE ParseOrRest(_, _)
RECURSIVE ParseAndTerm(_)
RECURSIVE ParseAndRest(_, _)
RECURSIVE ParseNotTerm(_)
RECURSIVE ParseAtom(_)

\* Atom := QuotedPhrase | BareWord | "(" Expression ")"
ParseAtom(toks) ==
  IF toks = <<>> THEN PErr
  ELSE IF Head(toks).t = "lit" THEN POk(Literal(Head(toks).w), Tail(toks))
  ELSE IF Head(toks).t = "lp"
       THEN LET r == ParseOrTerm(Tail(toks))
            IN  IF r.ok /\ r.rest # <<>> /\ Head(r.rest).t = "rp"
                THEN POk(Group(r.expr), Tail(r.rest))
                ELSE PErr
  ELSE PErr

\* NotTerm := ["NOT" | "-"] Atom
ParseNotTerm(toks) ==
  IF toks # <<>> /\ Head(toks).t = "not"
  THEN LET r == ParseAtom(Tail(toks))
       IN  IF r.ok THEN POk(Not(r.expr), r.rest) ELSE PErr
  ELSE ParseAtom(toks)

\* ( ["AND"] NotTerm )*
ParseAndRest(left, toks) ==
  IF toks = <<>> THEN POk(left, toks)
  ELSE IF Head(toks).t = "and"
       THEN LET r == ParseNotTerm(Tail(toks))
            IN  IF r.ok THEN ParseAndRest(And(left, r.expr), r.rest) ELSE PErr
  ELSE IF Head(toks).t \in {"lit", "lp", "not"}
       THEN LET r == ParseNotTerm(toks)
            IN  IF r.ok THEN ParseAndRest(And(left, r.expr), r.rest) ELSE PErr
  ELSE POk(left, toks)

\* AndTerm := NotTerm ( ["AND"] NotTerm )*
ParseAndTerm(toks) ==
  LET r == ParseNotTerm(toks)
  IN  IF r.ok THEN ParseAndRest(r.expr, r.rest) ELSE PErr

\* ( "OR" AndTerm )*
ParseOrRest(left, toks) ==
  IF toks # <<>> /\ Head(toks).t = "or"
  THEN LET r == ParseAndTerm(Tail(toks))
       IN  IF r.ok THEN ParseOrRest(Or(left, r.expr), r.rest) ELSE PErr
  ELSE POk(left, toks)

\* OrTerm := AndTerm ( "OR" AndTerm )*
ParseOrTerm(toks) ==
  LET r == ParseAndTerm(toks)
  IN  IF r.ok THEN ParseOrRest(r.expr, r.rest) ELSE PErr

\* parse_filter(query) -> Result<FilterExpr, ParseError>
parse_filter(q) ==
  LET lx == Lex(q, 1, <<>>)
      r == IF lx.ok THEN ParseOrTerm(lx.toks) ELSE PErr
  IN  IF r.ok /\ r.rest = <<>>
      THEN [ok |-> TRUE, expr |-> r.expr, err |-> "None"]
      ELSE [ok |-> FALSE, expr |-> NoExpr, err |-> "ParseError"]

\* the character offsets at which the literal occurs in the line, any case
LiteralOccurrences(pat, line) == Occurrences(FoldAll(line), pat)

RECURSIVE expr_matches(_, _)
\* FilterExpr::matches(line)
expr_matches(e, line) ==
  CASE e.k = "Literal" -> LiteralOccurrences(e.pat, line) # {}
    [] e.k = "And" -> expr_matches(e.l, line) /\ expr_matches(e.r, line)
    [] e.k = "Or" -> expr_matches(e.l, line) \/ expr_matches(e.r, line)
    [] e.k = "Not" -> ~expr_matches(e.inner, line)
    [] e.k = "Group" -> expr_matches(e.inner, line)

RECURSIVE LiteralRanges(_, _, _, _)
\* the successive non-overlapping occurrences of the literal from character
\* offset p on, as character ranges
LiteralRanges(pat, line, p, acc) ==
  LET O == {i \in LiteralOccurrences(pat, line) : i >= p}
  IN  IF O = {} \/ pat = <<>> THEN acc
      ELSE LET i == CHOOSE i \in O : \A m \in O : i <= m
           IN  LiteralRanges(pat, line, i + Len(pat),
                             Append(acc, <<i, i + Len(pat)>>))

RECURSIVE find_all_matches(_, _)
\* FilterExpr::find_all_matches(line): the character ranges of the literals
\* that took part in a positive evaluation
find_all_matches(e, line) ==
  IF ~expr_matches(e, line) THEN <<>>
  ELSE CASE e.k = "Literal" -> LiteralRanges(e.pat, line, 0, <<>>)
         [] e.k = "And" ->
              find_all_matches(e.l, line) \o find_all_matches(e.r, line)
         [] e.k = "Or" ->
              find_all_matches(e.l, line) \o find_all_matches(e.r, line)
         [] e.k = "Not" -> <<>>
         [] e.k = "Group" -> find_all_matches(e.inner, line)

----------------------------------------------------------------------------
(* highlight.rs: highlight_line                                            *)

RECURSIVE FilterSpansPadded(_)
\* A mutation of FilterSpans: each span ends one character late.
FilterSpansPadded(matches) ==
  IF matches = <<>> THEN <<>>
  ELSE <<MkSpan(Head(matches)[1], Head(matches)[2] + 1,
                "CustomHighlight", 100)>>
       \o FilterSpansPadded(Tail(matches))

RECURSIVE FilterSpans(_)
\* for (start, end) in matches { spans.push(Span { .. priority: 100 }) }
FilterSpans(matches) ==
  IF matches = <<>> THEN <<>>
  ELSE <<MkSpan(Head(matches)[1], Head(matches)[2], "CustomHighlight", 100)>>
       \o FilterSpans(Tail(matches))

\* priority: 10
HeuristicPriority == 10

RECURSIVE RuleSpansOutranking(_, _)
\* A mutation of RuleSpans: heuristic spans outrank the JSON spans.
RuleSpansOutranking(ms, style) ==
  IF ms = <<>> THEN <<>>
  ELSE <<MkSpan(Head(ms)[1], Head(ms)[2], style, 60)>>
       \o RuleSpansOutranking(Tail(ms), style)

RECURSIVE RuleSpans(_, _)
\* for m in rule.regex.find_iter(text) { spans.push(Span { start: m.start(),
\* end: m.end(), style: rule.style, priority: 10 }) }
RuleSpans(ms, style) ==
  IF ms = <<>> THEN <<>>
  ELSE <<MkSpan(Head(ms)[1], Head(ms)[2], style, HeuristicPriority)>>
       \o RuleSpans(Tail(ms), style)

RECURSIVE HeuristicSpans(_, _)
\* for rule in HEURISTIC_RULES.iter() { ... }
HeuristicSpans(t, rules) ==
  IF rules = <<>> THEN <<>>
  ELSE RuleSpans(find_iter(t, 0, Head(rules), <<>>), Head(rules).style)
       \o HeuristicSpans(t, Tail(rules))

\* a.start.cmp(&b.start).then(b.priority.cmp(&a.priority)) is Greater
SpanGreater(a, b) ==
  \/ a.start > b.start
  \/ (a.start = b.start /\ b.priority > a.priority)

RECURSIVE InsertSorted(_, _)
\* x goes after every element that is not greater than it
InsertSorted(sorted, x) ==
  IF sorted = <<>> THEN <<x>>
  ELSE IF SpanGreater(Head(sorted), x) THEN <<x>> \o sorted
  ELSE <<Head(sorted)>> \o InsertSorted(Tail(sorted), x)

RECURSIVE SortSpans(_, _)
\* spans.sort_by(..): a stable sort
SortSpans(ss, acc) ==
  IF ss = <<>> THEN acc ELSE SortSpans(Tail(ss), InsertSorted(acc, Head(ss)))

\* pub fn highlight_line(text, custom_filter, heuristic_enabled, json_enabled)
\*     -> Vec<Span>
highlight_line(t, custom_filter, heuristic_enabled, json_enabled) ==
  LET filter_spans ==
        IF custom_filter # NoExpr
        THEN FilterSpans(find_all_matches(custom_filter, t))
        ELSE <<>>
      json_spans == IF json_enabled THEN highlight_json(t) ELSE <<>>
      heuristic_spans ==
        IF heuristic_enabled THEN HeuristicSpans(t, HEURISTIC_RULES) ELSE <<>>
  IN  SortSpans(filter_spans \o json_spans \o heuristic_spans, <<>>)

----------------------------------------------------------------------------
(* app.rs: App                                                             *)

\* App::new
NewApp ==
  [ lines |-> <<>>,
    filtered_indices |-> <<>>,
    scroll_offset |-> 0,
    filter_input |-> <<>>,
    filter_expr |-> NoExpr,
    filter_error |-> "None",
    highlight_input |-> <<>>,
    highlight_expr |-> NoExpr,
    highlight_error |-> "None",
    follow_tail |-> TRUE,
    status_message |-> "None" ]

\* A mutation of matches_filter: every line passes.
matches_filter_always(self, idx) ==
  TRUE

\* A mutation of matches_filter: the filter's verdict is inverted.
matches_filter_negated(self, idx) ==
  IF self.filter_expr # NoExpr
  THEN ~expr_matches(self.filter_expr, self.lines[idx + 1])
  ELSE TRUE

\* fn matches_filter(&self, idx: usize) -> bool
matches_filter(self, idx) ==
  IF self.filter_expr # NoExpr
  THEN expr_matches(self.filter_expr, self.lines[idx + 1])
  ELSE TRUE

RECURSIVE MatchingFrom(_, _)
\* for i in 0..self.lines.len() { if self.matches_filter(i) { push(i) } },
\* from index i on
MatchingFrom(self, i) ==
  IF i >= Len(self.lines) THEN <<>>
  ELSE (IF matches_filter(self, i) THEN <<i>> ELSE <<>>)
       \o MatchingFrom(self, i + 1)

\* fn rebuild_filtered_indices(&mut self)
rebuild_filtered_indices(self) ==
  [self EXCEPT !.filtered_indices = MatchingFrom(self, 0),
               !.scroll_offset = 0]

\* A mutation of apply_filter: a failed parse drops the active expression.
apply_filter_dropping(self) ==
  IF Trim(self.filter_input) = <<>>
  THEN rebuild_filtered_indices(
         [self EXCEPT !.filter_expr = NoExpr, !.filter_error = "None"])
  ELSE LET r == parse_filter(self.filter_input)
       IN  IF r.ok
           THEN rebuild_filtered_indices(
                  [self EXCEPT !.filter_expr = r.expr, !.filter_error = "None"])
           ELSE rebuild_filtered_indices(
                  [self EXCEPT !.filter_expr = NoExpr, !.filter_error = r.err])

\* A mutation of apply_filter: a blank query leaves the error string.
apply_filter_keeping_error(self) ==
  IF Trim(self.filter_input) = <<>>
  THEN rebuild_filtered_indices([self EXCEPT !.filter_expr = NoExpr])
  ELSE LET r == parse_filter(self.filter_input)
       IN  IF r.ok
           THEN rebuild_filtered_indices(
                  [self EXCEPT !.filter_expr = r.expr, !.filter_error = "None"])
           ELSE [self EXCEPT !.filter_error = r.err]

\* pub fn apply_filter(&mut self)
apply_filter(self) ==
  IF Trim(self.filter_input) = <<>>
  THEN rebuild_filtered_indices(
         [self EXCEPT !.filter_expr = NoExpr, !.filter_error = "None"])
  ELSE LET r == parse_filter(self.filter_input)
       IN  IF r.ok
           THEN rebuild_filtered_indices(
                  [self EXCEPT !.filter_expr = r.expr, !.filter_error = "None"])
           ELSE [self EXCEPT !.filter_error = r.err]

\* pub fn apply_highlight(&mut self)
apply_highlight(self) ==
  IF Trim(self.highlight_input) = <<>>
  THEN [self EXCEPT !.highlight_expr = NoExpr, !.highlight_error = "None"]
  ELSE LET r == parse_filter(self.highlight_input)
       IN  IF r.ok
           THEN [self EXCEPT !.highlight_expr = r.expr,
                             !.highlight_error = "None"]
           ELSE [self EXCEPT !.highlight_error = r.err]

\* one event of the loop of poll_source
HandleEvent(self, event) ==
  IF event.kind = "Line"
  THEN LET idx == Len(self.lines)
           pushed == [self EXCEPT !.lines = Append(@, event.content)]
       IN  IF matches_filter(pushed, idx)
           THEN [pushed EXCEPT !.filtered_indices = Append(@, idx)]
           ELSE pushed
  ELSE [self EXCEPT !.status_message = "Source error"]

RECURSIVE poll_source(_, _)
\* pub fn poll_source(&mut self): while let Ok(event) = try_recv() { ... }
poll_source(self, events) ==
  IF events = <<>> THEN self
  ELSE poll_source(HandleEvent(self, Head(events)), Tail(events))

\* pub fn clear(&mut self)
clear(self) ==
  [self EXCEPT !.lines = <<>>, !.filtered_indices = <<>>,
               !.scroll_offset = 0, !.status_message = "Cleared"]

\* usize::saturating_sub
SaturatingSub(a, b) == IF a >= b THEN a - b ELSE 0

\* pub fn scroll_up(&mut self, amount: usize)
scroll_up(self, amount) ==
  [self EXCEPT !.scroll_offset = SaturatingSub(@, amount),
               !.follow_tail = FALSE]

\* pub fn scroll_down(&mut self, amount: usize, visible_height: usize)
scroll_down(self, amount, visible_height) ==
  LET max_offset == SaturatingSub(Len(self.filtered_indices), visible_height)
      offset == Min(self.scroll_offset + amount, max_offset)
  IN  [self EXCEPT !.scroll_offset = offset,
                   !.follow_tail = IF offset >= max_offset THEN TRUE ELSE @]

\* pub fn scroll_to_end(&mut self, visible_height: usize)
scroll_to_end(self, visible_height) ==
  [self EXCEPT
     !.scroll_offset = SaturatingSub(Len(self.filtered_indices), visible_height),
     !.follow_tail = TRUE]

\* pub fn scroll_to_start(&mut self)
scroll_to_start(self) ==
  [self EXCEPT !.scroll_offset = 0, !.follow_tail = FALSE]

----------------------------------------------------------------------------
(* core/log_state.rs: LogState                                             *)

\* impl Default for LogState
DefaultLogState ==
  [ lines |-> <<>>,
    filtered_indices |-> <<>>,
    bottom_line_idx |-> 0,
    follow_tail |-> TRUE ]

\* pub fn add_line(&mut self, content: String) -> usize, at clock reading now
LogState_add_line(self, content, now) ==
  [ state |-> [self EXCEPT !.lines =
                 Append(@, [timestamp |-> now, content |-> content])],
    idx |-> Len(self.lines) ]

\* pub fn clear(&mut self)
LogState_clear(self) ==
  [self EXCEPT !.lines = <<>>,
               !.filtered_indices = <<>>,
               !.bottom_line_idx = 0]

\* A mutation of LogState_scroll_up: tail following stays on.
LogState_scroll_up_following(self, amount) ==
  LET from == IF self.follow_tail
              THEN SaturatingSub(Len(self.filtered_indices), 1)
              ELSE self.bottom_line_idx
  IN  [self EXCEPT !.bottom_line_idx = SaturatingSub(from, amount)]

\* pub fn scroll_up(&mut self, amount: usize)
LogState_scroll_up(self, amount) ==
  LET from == IF self.follow_tail
              THEN SaturatingSub(Len(self.filtered_indices), 1)
              ELSE self.bottom_line_idx
  IN  [self EXCEPT !.bottom_line_idx = SaturatingSub(from, amount),
                   !.follow_tail = FALSE]

\* A mutation of LogState_scroll_down: tail following resumes only beyond
\* the last position.
LogState_scroll_down_strict(self, amount) ==
  LET max_idx == SaturatingSub(Len(self.filtered_indices), 1)
      bottom == Min(self.bottom_line_idx + amount, max_idx)
  IN  IF self.follow_tail THEN self
      ELSE [self EXCEPT !.bottom_line_idx = bottom,
                        !.follow_tail = IF bottom > max_idx THEN TRUE ELSE @]

\* pub fn scroll_down(&mut self, amount: usize)
LogState_scroll_down(self, amount) ==
  LET max_idx == SaturatingSub(Len(self.filtered_indices), 1)
      bottom == Min(self.bottom_line_idx + amount, max_idx)
  IN  IF self.follow_tail THEN self
      ELSE [self EXCEPT !.bottom_line_idx = bottom,
                        !.follow_tail = IF bottom >= max_idx THEN TRUE ELSE @]

\* pub fn scroll_to_start(&mut self)
LogState_scroll_to_start(self) ==
  [self EXCEPT !.bottom_line_idx = 0, !.follow_tail = FALSE]

\* pub fn scroll_to_end(&mut self)
LogState_scroll_to_end(self) ==
  [self EXCEPT !.follow_tail = TRUE,
               !.bottom_line_idx =
                 SaturatingSub(Len(self.filtered_indices), 1)]

\* A mutation of get_bottom_line_idx: the stored index is returned as it is.
get_bottom_line_idx_stored(self) ==
  IF self.follow_tail
  THEN SaturatingSub(Len(self.filtered_indices), 1)
  ELSE self.bottom_line_idx

\* pub fn get_bottom_line_idx(&self) -> usize
get_bottom_line_idx(self) ==
  IF self.follow_tail
  THEN SaturatingSub(Len(self.filtered_indices), 1)
  ELSE Min(self.bottom_line_idx,
           SaturatingSub(Len(self.filtered_indices), 1))

----------------------------------------------------------------------------
(* core/listen_state.rs: ListenState.  Option<u16>::None is -1,            *)
(* Option<(u16, u16, u16, u16)>::None is <<>>.                             *)

\* Option::<String>::None and Some(text)
NoText == [some |-> FALSE, text |-> <<>>]

SomeText(t) == [some |-> TRUE, text |-> t]

\* pub fn new(port: Option<u16>) -> Self; interfaces is what
\* get_network_interfaces() returns
ListenState_new(port, interfaces) ==
  [ port |-> port,
    has_connection |-> FALSE,
    network_interfaces |-> IF port # -1 THEN interfaces ELSE <<>>,
    display_mode |-> "AddrPort",
    addr_list |-> <<>>,
    selected_idx |-> 0,
    popup_area |-> <<>> ]

\* pub fn show_popup(&self) -> bool
show_popup(self) == self.port # -1 /\ ~self.has_connection

\* pub fn toggle_display_mode(&mut self)
toggle_display_mode(self) ==
  [self EXCEPT !.display_mode =
     IF @ = "AddrPort" THEN "NcCommand" ELSE "AddrPort"]

\* A mutation of select_next: the index stops after the last entry.
select_next_unwrapped(self) ==
  IF self.addr_list # <<>>
  THEN [self EXCEPT !.selected_idx = @ + 1]
  ELSE self

\* pub fn select_next(&mut self)
select_next(self) ==
  IF self.addr_list # <<>>
  THEN [self EXCEPT !.selected_idx = (@ + 1) % Len(self.addr_list)]
  ELSE self

\* pub fn select_prev(&mut self)
select_prev(self) ==
  IF self.addr_list # <<>>
  THEN [self EXCEPT !.selected_idx =
          IF @ >= 1 THEN @ - 1 ELSE Len(self.addr_list) - 1]
  ELSE self

\* pub fn get_selected_copy_text(&self) -> Option<String>; the text is the
\* sequence of the pieces format! joins
get_selected_copy_text(self) ==
  IF self.port = -1 THEN NoText
  ELSE IF ~(self.selected_idx < Len(self.addr_list)) THEN NoText
  ELSE LET entry == self.addr_list[self.selected_idx + 1]
       IN  SomeText(
             IF self.display_mode = "AddrPort"
             THEN IF entry.is_v6
                  THEN <<"[", entry.ip, "]:", self.port>>
                  ELSE <<entry.ip, ":", self.port>>
             ELSE IF entry.is_v6
                  THEN <<"nc -6 ", entry.ip, " ", self.port>>
                  ELSE <<"nc ", entry.ip, " ", self.port>>)

\* for (idx, entry) in self.addr_list.iter().enumerate(): the index of the
\* first entry drawn on line y, -1 if there is none
ClickedEntry(self, y) ==
  LET py == self.popup_area[2]
      H == {i \in 1..Len(self.addr_list) : y = py + self.addr_list[i].row}
  IN  IF H = {} THEN -1 ELSE (CHOOSE i \in H : \A k \in H : i <= k) - 1

\* pub fn handle_click(&mut self, x: u16, y: u16) -> Option<String>: the
\* state after the call and the value returned
handle_click(self, x, y) ==
  IF self.popup_area = <<>> THEN [state |-> self, returned |-> NoText]
  ELSE LET px == self.popup_area[1]
           py == self.popup_area[2]
           pw == self.popup_area[3]
           ph == self.popup_area[4]
       IN  IF x < px \/ x >= px + pw \/ y < py \/ y >= py + ph
           THEN [state |-> self, returned |-> NoText]
           ELSE IF ClickedEntry(self, y) = -1
                THEN [state |-> self, returned |-> NoText]
                ELSE LET clicked ==
                           [self EXCEPT !.selected_idx = ClickedEntry(self, y)]
                     IN  [state |-> clicked,
                          returned |-> get_selected_copy_text(clicked)]

----------------------------------------------------------------------------
(* Inputs                                                                  *)

\* most spans a caller hands to apply_highlights in one call
MaxSpans == 2

\* the lines: empty, ASCII, with multi-byte characters, with heuristic
\* matches and with embedded JSON
Texts ==
  { <<>>,
    <<"a", "b", "c", "d", "e">>,
    <<"a", "@e", "b", "@j">>,
    <<"@j", "@e">>,
    <<"e", "r", "r">>,
    <<"@e", " ", "e", "r", "r">>,
    <<"{", "\"", "a", "\"", ":", "1", "}">>,
    <<"@j", " ", "{", "\"", "a", "\"", ":", "\"", "x", "\"", "}">>,
    <<"{", "\"", "a", "1", "\"", ":", "1", "}">>,
    <<"{", "\"", "a", "\"", ":", "\"", "a", "\"", "}">>,
    <<"{", "\"", "a", "\"", ":", "\"", "x", "\"", ",", "\"", "b", "\"", ":", "\"", "x", "\"", "}">>,
    <<"{", "\"", "a", "\"", ":", "\"", "b", "\"", ",", "\"", "b", "\"", ":", "1", "}">>,
    <<"[", "w", "a", "r", "n", "]", " ", "{", "\"", "k", "\"", ":", "\"", "e", "r", "r", "\"", ",", "\"", "m", "\"", ":", "\"", "i", "n", "f", "o", "\"", "}">>,
    <<"1", "2", ":", "3", "4", ":", "5", "6", " ", "i", "n", "f", "o">>,
    <<"{", "x", " ", "{", "\"", "a", "\"", ":", "[", "t", "r", "u", "e", "]", "}", " ", "[", "n", "u", "l", "l", "]">>,
    <<"2", "0", "2", "4", "-", "0", "1", "-", "0", "2", "T", "1", "2", ":", "3", "4", ":", "5", "6", " ", "[", "@>", "]", " ", "F", "A", "I", "L", "E", "D">> }

\* the highlight queries committed by the user
HighlightQueries ==
  { <<"e", "r", "r">>,
    <<"a", " ", "O", "R", " ", "w", "a", "r", "n">>,
    <<"N", "O", "T", " ", "x">>,
    <<"\"", "x", "\"", " ", "b">>,
    <<"a", " ", "O", "R", " ", "N", "O", "T", " ", "x">> }

\* the highlight expression in effect: none, or a parsed query
HighlightExprs ==
  {NoExpr} \cup {parse_filter(q).expr : q \in HighlightQueries}

\* most lines the source ever delivers
MaxLines == 2

\* most events waiting in the channel
MaxQueue == 2

\* the contents of the lines the source delivers
Contents ==
  { <<"e", "r", "r">>,
    <<"@e", " ", "d", "b", "g">> }

\* the events of the source
SourceEvents ==
  {[kind |-> "Line", content |-> c] : c \in Contents}
    \cup {[kind |-> "Error", content |-> <<>>]}

\* the queries the user commits: empty, blank, malformed and well-formed
Queries ==
  { <<>>,
    <<" ", "\t">>,
    <<"(", "e", "r", "r", " ", "A", "N", "D">>,
    <<"e", "r", "r">>,
    <<"N", "O", "T", " ", "e", "r", "r">>,
    <<"(", "e", "r", "r", " ", "O", "R", " ", "x", ")", " ", "-", "d", "b", "g">> }

\* the numbers of lines scrolled by
ScrollAmounts == {1, 2}

\* the heights of the viewport
VisibleHeights == {1, 2}

\* start and end offsets: in range, empty, reversed, end or both out of range
SpanRanges ==
  { <<0, 5>>, <<2, 4>>, <<3, 1>>, <<2, 2>>, <<4, 9>>, <<7, 9>> }

SpanKinds ==
  { <<"Warning", 10>>, <<"Error", 10>>, <<"CustomHighlight", 100>>,
    <<"Info", 0>> }

CallerSpan ==
  { [start |-> r[1], end |-> r[2], style |-> k[1], priority |-> k[2]] :
      r \in SpanRanges, k \in SpanKinds }

CallerSpanLists ==
  UNION { [1..n -> CallerSpan] : n \in 0..MaxSpans }

\* most lines the log ever holds
MaxLogLines == 3

\* the reading of the clock when a line arrives
Clock == {"12:34:56"}

\* the numbers of lines the log is scrolled by
LogScrollAmounts == 0..(MaxLogLines + 1)

\* the strictly ascending lists of indices below n
AscendingIndices(n) ==
  {f \in UNION {[1..m -> 0..(n - 1)] : m \in 0..n} :
     \A i \in 1..(Len(f) - 1) : f[i] < f[i + 1]}

\* most addresses the popup lists
MaxAddrs == 3

\* the port the viewer listens on, if it listens
Ports == {-1, 8080}

\* what get_network_interfaces() returns
NetworkInterfaces == <<"lo", "eth0">>

\* the i-th address of the popup: the first is drawn on row 2, the others
\* from row 4 on, so that row 3 holds no address
AddrEntry(i) ==
  [ ip |-> IF i % 2 = 0 THEN <<"fe80::", i>> ELSE <<"10.0.0.", i>>,
    is_v6 |-> i % 2 = 0,
    is_self_assigned |-> FALSE,
    row |-> IF i = 1 THEN 2 ELSE i + 2 ]

\* the address lists the renderer stores
AddrLists == {[i \in 1..n |-> AddrEntry(i)] : n \in 0..MaxAddrs}

\* the popup areas the renderer stores: none, or (x, y, width, height)
PopupAreas == {<<>>, <<1, 1, 8, MaxAddrs + 4>>}

\* the cells clicked: left of, inside and right of the popup, above, inside
\* and below it
ClickColumns == {0, 1, 8, 9}

ClickLines == 0..(MaxAddrs + 5)

\* a call of a ListenState method: the value it returned, selected_idx
\* before it, for a select_prev right after a select_next selected_idx
\* before that select_next (-1 otherwise), and for handle_click the cell
\* clicked (<<>> otherwise)
ListenCall(op, returned, before, from_idx, cell) ==
  [op |-> op, returned |-> returned, before |-> before, origin |-> from_idx,
   cell |-> cell]

NoListenCall == ListenCall("none", NoText, 0, -1, <<>>)

\* the locals of the two loops: search_start, results and the number of
\* parse attempts of find_all_json, with what the stream answers at each
\* bracket of the line; style_at and pos of apply_highlights
NoScan ==
  [search_start |-> 0, results |-> <<>>, attempts |-> 0, stream |-> <<>>,
   style_at |-> <<>>, pos |-> 0]

\* a call of a LogState method: for scroll_up, from_tail tells that
\* follow_tail was set before it; for scroll_down, that the call before it
\* was such a scroll_up by the same amount
Call(op, amount, from_tail) ==
  [op |-> op, amount |-> amount, from_tail |-> from_tail]

NoCall == Call("none", 0, FALSE)

NoResult == [panic |-> FALSE, runs |-> <<>>]

NoCfg == [custom_filter |-> NoExpr, heuristic_enabled |-> FALSE,
          json_enabled |-> FALSE]

----------------------------------------------------------------------------
(* The rendering of one line                                               *)

InitHL ==
  /\ app = NewApp
  /\ source_rx = <<>>
  /\ text \in Texts
  /\ spans = <<>>
  /\ origin = "none"
  /\ cfg = NoCfg
  /\ result = NoResult
  /\ pc = "input"
  /\ log_state = DefaultLogState
  /\ last_call = NoCall
  /\ listen_state = ListenState_new(-1, NetworkInterfaces)
  /\ listen_call = NoListenCall
  /\ scan = NoScan

\* a caller of the public apply_highlights supplies any list of spans
CallerSpans ==
  /\ pc = "input"
  /\ \E ss \in CallerSpanLists : spans' = ss
  /\ origin' = "caller"
  /\ pc' = "spans"
  /\ UNCHANGED <<text, cfg, result>>
  /\ UNCHANGED appvars
  /\ UNCHANGED corevars

\* the renderer computes the spans of the line from the settings
HighlightLine ==
  /\ pc = "input"
  /\ \E f \in HighlightExprs, h \in BOOLEAN, j \in BOOLEAN :
       /\ cfg' = [custom_filter |-> f, heuristic_enabled |-> h,
                  json_enabled |-> j]
       /\ spans' = highlight_line(text, f, h, j)
  /\ origin' = "pipeline"
  /\ pc' = "spans"
  /\ UNCHANGED <<text, result>>
  /\ UNCHANGED appvars
  /\ UNCHANGED corevars

ApplyHighlights ==
  /\ pc = "spans"
  /\ result' = apply_highlights(text, spans)
  /\ pc' = "done"
  /\ UNCHANGED <<text, spans, origin, cfg>>
  /\ UNCHANGED appvars
  /\ UNCHANGED corevars

NextHL ==
  \/ CallerSpans
  \/ HighlightLine
  \/ ApplyHighlights

SpecHL == InitHL /\ [][NextHL]_vars

----------------------------------------------------------------------------
(* The App state machine                                                   *)

Init ==
  /\ app = NewApp
  /\ source_rx = <<>>
  /\ text = <<>>
  /\ spans = <<>>
  /\ origin = "none"
  /\ cfg = NoCfg
  /\ result = NoResult
  /\ pc = "idle"
  /\ log_state = DefaultLogState
  /\ last_call = NoCall
  /\ listen_state = ListenState_new(-1, NetworkInterfaces)
  /\ listen_call = NoListenCall
  /\ scan = NoScan

\* the number of Line events in the channel
RECURSIVE LineEvents(_)
LineEvents(events) ==
  IF events = <<>> THEN 0
  ELSE (IF Head(events).kind = "Line" THEN 1 ELSE 0) + LineEvents(Tail(events))

\* the log source sends an event
SourceSend ==
  /\ Len(source_rx) < MaxQueue
  /\ \E e \in SourceEvents :
       /\ e.kind = "Line" => Len(app.lines) + LineEvents(source_rx) < MaxLines
       /\ source_rx' = Append(source_rx, e)
  /\ UNCHANGED app
  /\ UNCHANGED hlvars
  /\ UNCHANGED corevars

\* the main loop polls the source: every waiting event is handled
PollSource ==
  /\ app' = poll_source(app, source_rx)
  /\ source_rx' = <<>>
  /\ UNCHANGED hlvars
  /\ UNCHANGED corevars

\* the user commits the query q as the filter
ApplyFilterStep(q) ==
  /\ app' = apply_filter([app EXCEPT !.filter_input = q])
  /\ UNCHANGED source_rx
  /\ UNCHANGED hlvars
  /\ UNCHANGED corevars

ApplyFilter == \E q \in Queries : ApplyFilterStep(q)

\* the user commits the query q as the highlight
ApplyHighlightStep(q) ==
  /\ app' = apply_highlight([app EXCEPT !.highlight_input = q])
  /\ UNCHANGED source_rx
  /\ UNCHANGED hlvars
  /\ UNCHANGED corevars

ApplyHighlight == \E q \in Queries : ApplyHighlightStep(q)

Clear ==
  /\ app' = clear(app)
  /\ UNCHANGED source_rx
  /\ UNCHANGED hlvars
  /\ UNCHANGED corevars

ScrollUp ==
  /\ \E amount \in ScrollAmounts : app' = scroll_up(app, amount)
  /\ UNCHANGED source_rx
  /\ UNCHANGED hlvars
  /\ UNCHANGED corevars

ScrollDown ==
  /\ \E amount \in ScrollAmounts, h \in VisibleHeights :
       app' = scroll_down(app, amount, h)
  /\ UNCHANGED source_rx
  /\ UNCHANGED hlvars
  /\ UNCHANGED corevars

ScrollToEnd ==
  /\ \E h \in VisibleHeights : app' = scroll_to_end(app, h)
  /\ UNCHANGED source_rx
  /\ UNCHANGED hlvars
  /\ UNCHANGED corevars

ScrollToStart ==
  /\ app' = scroll_to_start(app)
  /\ UNCHANGED source_rx
  /\ UNCHANGED hlvars
  /\ UNCHANGED corevars

Next ==
  \/ SourceSend
  \/ PollSource
  \/ ApplyFilter
  \/ ApplyHighlight
  \/ Clear
  \/ ScrollUp
  \/ ScrollDown
  \/ ScrollToEnd
  \/ ScrollToStart

Spec == Init /\ [][Next]_vars

----------------------------------------------------------------------------
(* The LogState machine: the log of the core and its scroll position       *)

InitLog ==
  /\ app = NewApp
  /\ source_rx = <<>>
  /\ text = <<>>
  /\ spans = <<>>
  /\ origin = "none"
  /\ cfg = NoCfg
  /\ result = NoResult
  /\ pc = "log"
  /\ log_state = DefaultLogState
  /\ last_call = NoCall
  /\ listen_state = ListenState_new(-1, NetworkInterfaces)
  /\ listen_call = NoListenCall
  /\ scan = NoScan

\* a line arrives and is stored
LogAddLine ==
  /\ Len(log_state.lines) < MaxLogLines
  /\ \E content \in Contents, now \in Clock :
       log_state' = LogState_add_line(log_state, content, now).state
  /\ last_call' = Call("add_line", 0, FALSE)
  /\ UNCHANGED appvars
  /\ UNCHANGED hlvars
  /\ UNCHANGED listenvars
  /\ UNCHANGED scan

\* the owner of the LogState assigns the public field filtered_indices:
\* some of the stored lines, in order
LogSetFiltered ==
  /\ \E f \in AscendingIndices(Len(log_state.lines)) :
       log_state' = [log_state EXCEPT !.filtered_indices = f]
  /\ last_call' = Call("filtered_indices", 0, FALSE)
  /\ UNCHANGED appvars
  /\ UNCHANGED hlvars
  /\ UNCHANGED listenvars
  /\ UNCHANGED scan

LogClear ==
  /\ log_state' = LogState_clear(log_state)
  /\ last_call' = Call("clear", 0, FALSE)
  /\ UNCHANGED appvars
  /\ UNCHANGED hlvars
  /\ UNCHANGED listenvars
  /\ UNCHANGED scan

LogScrollUp ==
  /\ \E amount \in LogScrollAmounts :
       /\ log_state' = LogState_scroll_up(log_state, amount)
       /\ last_call' = Call("scroll_up", amount, log_state.follow_tail)
  /\ UNCHANGED appvars
  /\ UNCHANGED hlvars
  /\ UNCHANGED listenvars
  /\ UNCHANGED scan

LogScrollDown ==
  /\ \E amount \in LogScrollAmounts :
       /\ log_state' = LogState_scroll_down(log_state, amount)
       /\ last_call' = Call("scroll_down", amount,
                            last_call = Call("scroll_up", amount, TRUE))
  /\ UNCHANGED appvars
  /\ UNCHANGED hlvars
  /\ UNCHANGED listenvars
  /\ UNCHANGED scan

LogScrollToStart ==
  /\ log_state' = LogState_scroll_to_start(log_state)
  /\ last_call' = Call("scroll_to_start", 0, FALSE)
  /\ UNCHANGED appvars
  /\ UNCHANGED hlvars
  /\ UNCHANGED listenvars
  /\ UNCHANGED scan

LogScrollToEnd ==
  /\ log_state' = LogState_scroll_to_end(log_state)
  /\ last_call' = Call("scroll_to_end", 0, FALSE)
  /\ UNCHANGED appvars
  /\ UNCHANGED hlvars
  /\ UNCHANGED listenvars
  /\ UNCHANGED scan

NextLog ==
  \/ LogAddLine
  \/ LogSetFiltered
  \/ LogClear
  \/ LogScrollUp
  \/ LogScrollDown
  \/ LogScrollToStart
  \/ LogScrollToEnd

SpecLog == InitLog /\ [][NextLog]_vars

----------------------------------------------------------------------------
(* The loops of the rendering of one line, one iteration at a time: a call *)
(* of find_all_json, or a call of apply_highlights, with the spans that    *)
(* highlight_line returned, from the point where it has filled style_at.   *)

InitScan ==
  /\ app = NewApp
  /\ source_rx = <<>>
  /\ text \in Texts
  /\ origin = "pipeline"
  /\ \E f \in HighlightExprs, h \in BOOLEAN, j \in BOOLEAN :
       /\ cfg = [custom_filter |-> f, heuristic_enabled |-> h,
                 json_enabled |-> j]
       /\ \/ /\ pc = "find_all_json"
             /\ j
             /\ spans = <<>>
             /\ scan = [NoScan EXCEPT !.stream = StreamAt(text)]
          \/ /\ pc = "coalesce"
             /\ spans = highlight_line(text, f, h, j)
             /\ spans # <<>>
             /\ LET st == ApplySpans(text,
                            [panic |-> FALSE, style_at |-> InitStyleAt(text)],
                            spans)
                IN  /\ ~st.panic
                    /\ scan = [NoScan EXCEPT !.style_at = st.style_at]
  /\ result = NoResult
  /\ log_state = DefaultLogState
  /\ last_call = NoCall
  /\ listen_state = ListenState_new(-1, NetworkInterfaces)
  /\ listen_call = NoListenCall

\* one iteration of the while let of find_all_json
FindAllJsonStep ==
  /\ pc = "find_all_json"
  /\ find_all_json_continues(text, scan.search_start)
  /\ LET abs_pos == find_all_json_abs_pos(text, scan.search_start)
         step == find_all_json_step(abs_pos, scan.stream[abs_pos],
                                    scan.results)
     IN  scan' = [scan EXCEPT !.search_start = step.search_start,
                              !.results = step.results,
                              !.attempts = @ + 1]
  /\ UNCHANGED <<text, spans, origin, cfg, result, pc>>
  /\ UNCHANGED appvars
  /\ UNCHANGED logvars
  /\ UNCHANGED listenvars

\* the while let finds no further bracket: find_all_json returns results
FindAllJsonReturn ==
  /\ pc = "find_all_json"
  /\ ~find_all_json_continues(text, scan.search_start)
  /\ pc' = "found"
  /\ UNCHANGED <<text, spans, origin, cfg, result, scan>>
  /\ UNCHANGED appvars
  /\ UNCHANGED logvars
  /\ UNCHANGED listenvars

\* one iteration of `while pos < text.len()`
CoalesceStep ==
  /\ pc = "coalesce"
  /\ scan.pos < ByteLen(text)
  /\ LET step == CoalesceStepOf(Bytes(text), scan.style_at, scan.pos, result)
     IN  /\ result' = step.acc
         /\ scan' = [scan EXCEPT !.pos = step.pos]
         /\ pc' = IF step.acc.panic THEN "returned" ELSE "coalesce"
  /\ UNCHANGED <<text, spans, origin, cfg>>
  /\ UNCHANGED appvars
  /\ UNCHANGED logvars
  /\ UNCHANGED listenvars

\* pos has reached text.len(): apply_highlights returns result
CoalesceReturn ==
  /\ pc = "coalesce"
  /\ ~(scan.pos < ByteLen(text))
  /\ pc' = "returned"
  /\ UNCHANGED <<text, spans, origin, cfg, result, scan>>
  /\ UNCHANGED appvars
  /\ UNCHANGED logvars
  /\ UNCHANGED listenvars

NextScan ==
  \/ FindAllJsonStep
  \/ FindAllJsonReturn
  \/ CoalesceStep
  \/ CoalesceReturn

SpecScan == InitScan /\ [][NextScan]_vars

\* the thread that renders the line keeps running: it takes the next
\* iteration whenever there is one
SpecScanFair == SpecScan /\ WF_vars(NextScan)

----------------------------------------------------------------------------
(* The ListenState machine: the popup that lists the listening addresses   *)

InitListen ==
  /\ app = NewApp
  /\ source_rx = <<>>
  /\ text = <<>>
  /\ spans = <<>>
  /\ origin = "none"
  /\ cfg = NoCfg
  /\ result = NoResult
  /\ pc = "listen"
  /\ log_state = DefaultLogState
  /\ last_call = NoCall
  /\ \E port \in Ports : listen_state = ListenState_new(port, NetworkInterfaces)
  /\ listen_call = NoListenCall
  /\ scan = NoScan

\* the renderer assigns the public fields addr_list and popup_area
ListenSetLayout ==
  /\ \E l \in AddrLists, area \in PopupAreas :
       listen_state' = [listen_state EXCEPT !.addr_list = l,
                                            !.popup_area = area]
  /\ listen_call' =
       ListenCall("layout", NoText, listen_state.selected_idx, -1, <<>>)
  /\ UNCHANGED appvars
  /\ UNCHANGED hlvars
  /\ UNCHANGED logvars
  /\ UNCHANGED scan

ListenToggleDisplayMode ==
  /\ listen_state' = toggle_display_mode(listen_state)
  /\ listen_call' =
       ListenCall("toggle_display_mode", NoText, listen_state.selected_idx,
                  -1, <<>>)
  /\ UNCHANGED appvars
  /\ UNCHANGED hlvars
  /\ UNCHANGED logvars
  /\ UNCHANGED scan

ListenSelectNext ==
  /\ listen_state' = select_next(listen_state)
  /\ listen_call' =
       ListenCall("select_next", NoText, listen_state.selected_idx, -1, <<>>)
  /\ UNCHANGED appvars
  /\ UNCHANGED hlvars
  /\ UNCHANGED logvars
  /\ UNCHANGED scan

ListenSelectPrev ==
  /\ listen_state' = select_prev(listen_state)
  /\ listen_call' =
       ListenCall("select_prev", NoText, listen_state.selected_idx,
                  IF listen_call.op = "select_next"
                  THEN listen_call.before ELSE -1,
                  <<>>)
  /\ UNCHANGED appvars
  /\ UNCHANGED hlvars
  /\ UNCHANGED logvars
  /\ UNCHANGED scan

\* a click on the cell (x, y)
ListenHandleClick ==
  /\ \E x \in ClickColumns, y \in ClickLines :
       /\ listen_state' = handle_click(listen_state, x, y).state
       /\ listen_call' =
            ListenCall("handle_click",
                       handle_click(listen_state, x, y).returned,
                       listen_state.selected_idx, -1, <<x, y>>)
  /\ UNCHANGED appvars
  /\ UNCHANGED hlvars
  /\ UNCHANGED logvars
  /\ UNCHANGED scan

NextListen ==
  \/ ListenSetLayout
  \/ ListenToggleDisplayMode
  \/ ListenSelectNext
  \/ ListenSelectPrev
  \/ ListenHandleClick

SpecListen == InitListen /\ [][NextListen]_vars

----------------------------------------------------------------------------
(* Reading the output of apply_highlights                                  *)

RECURSIVE ConcatRuns(_)
\* the run texts, concatenated in order
ConcatRuns(runs) ==
  IF runs = <<>> THEN <<>> ELSE Head(runs).text \o ConcatRuns(Tail(runs))

RECURSIVE OutStyleAt(_, _)
\* the category of the run that holds byte offset off (0-based) of the output
OutStyleAt(runs, off) ==
  IF runs = <<>> THEN "Missing"
  ELSE IF off < Len(Head(runs).text) THEN Head(runs).style
  ELSE OutStyleAt(Tail(runs), off - Len(Head(runs).text))

\* the byte offsets of character ci (0-based) of t
BytesOfChar(t, ci) == SumWidth(t, ci)..(SumWidth(t, ci + 1) - 1)

\* span s, read as character offsets, covers character ci
Covers(s, ci) == s.start <= ci /\ ci < s.end

\* the indices of the spans that cover character ci
Covering(ss, ci) == {j \in 1..Len(ss) : Covers(ss[j], ci)}

\* among the spans J, those of maximal priority
MaxPriority(ss, J) ==
  {j \in J : \A k \in J : ss[k].priority <= ss[j].priority}

HasMultiByte(t) == \E i \in 1..Len(t) : Width(t[i]) > 1

----------------------------------------------------------------------------
(* Claims                                                                  *)

\* C1: the run texts returned by apply_highlights, concatenated in order,
\* are the original line, for every line and every list of spans.
C1_Coverage ==
  pc = "done" => ConcatRuns(result.runs) = Bytes(text)

C1_Witness ==
  /\ pc = "done"
  /\ origin = "caller"
  /\ HasMultiByte(text)
  /\ Len(spans) = 2
  /\ \E ci \in 0..(Len(text) - 1) : Covering(spans, ci) = {1, 2}
  /\ Len(result.runs) >= 3

PriorityExampleText == <<"a", "b", "c", "d", "e">>

PriorityExampleWarning ==
  [start |-> 0, end |-> 5, style |-> "Warning", priority |-> 10]

PriorityExampleCustom ==
  [start |-> 2, end |-> 4, style |-> "CustomHighlight", priority |-> 100]

PriorityExampleRuns ==
  << [text |-> Bytes(<<"a", "b">>), style |-> "Warning"],
     [text |-> Bytes(<<"c", "d">>), style |-> "CustomHighlight"],
     [text |-> Bytes(<<"e">>), style |-> "Warning"] >>

\* C2: every character is output with the category of a span of maximal
\* priority among the spans covering it, and with "None" when no span
\* covers it; [0,5) priority 10 warning and [2,4) priority 100 custom on a
\* 5-character line give the runs [0,2) warning, [2,4) custom, [4,5) warning.
C2_MaxPriorityWins ==
  pc = "done" /\ spans # <<>> =>
    /\ \A ci \in 0..(Len(text) - 1) : \A off \in BytesOfChar(text, ci) :
         LET J == Covering(spans, ci)
         IN  IF J = {}
             THEN OutStyleAt(result.runs, off) = "None"
             ELSE \E j \in MaxPriority(spans, J) :
                    OutStyleAt(result.runs, off) = spans[j].style
    /\ ( /\ text = PriorityExampleText
         /\ spans \in { <<PriorityExampleWarning, PriorityExampleCustom>>,
                        <<PriorityExampleCustom, PriorityExampleWarning>> }
         => result.runs = PriorityExampleRuns )

C2_Witness ==
  /\ pc = "done"
  /\ text = PriorityExampleText
  /\ spans = <<PriorityExampleCustom, PriorityExampleWarning>>
  /\ result.runs = PriorityExampleRuns

\* C3: where spans of equal priority cover a character (and none of greater
\* priority does), the character is output with the category of the one that
\* comes last in the span list.
C3_LaterEqualPriorityWins ==
  pc = "done" /\ spans # <<>> =>
    \A ci \in 0..(Len(text) - 1) : \A off \in BytesOfChar(text, ci) :
      LET M == MaxPriority(spans, Covering(spans, ci))
      IN  M # {} =>
            OutStyleAt(result.runs, off) =
              spans[CHOOSE j \in M : \A k \in M : k <= j].style

C3_Witness ==
  /\ pc = "done"
  /\ Len(spans) = 2
  /\ spans[1].priority = spans[2].priority
  /\ spans[1].style # spans[2].style
  /\ \E ci \in 0..(Len(text) - 1) :
       /\ Covering(spans, ci) = {1, 2}
       /\ OutStyleAt(result.runs, SumWidth(text, ci)) = spans[2].style

\* C4: apply_highlights never panics and never slices outside the line or
\* off a character boundary, for any line and any spans; offsets beyond the
\* line are clamped to the line length.
C4_NeverPanics ==
  /\ pc = "spans" =>
       \A j \in 1..Len(spans) :
         /\ char_to_byte_pos(text, spans[j].start) <= ByteLen(text)
         /\ char_to_byte_pos(text, spans[j].end) <= ByteLen(text)
         /\ IsCharBoundary(Bytes(text), char_to_byte_pos(text, spans[j].start))
         /\ IsCharBoundary(Bytes(text), char_to_byte_pos(text, spans[j].end))
  /\ pc = "done" => ~result.panic

C4_Witness ==
  /\ pc = "done"
  /\ ~result.panic
  /\ HasMultiByte(text)
  /\ Len(spans) = 2
  /\ spans[1].start > Len(text) /\ spans[1].end > Len(text)
  /\ spans[2].start > spans[2].end
  /\ ConcatRuns(result.runs) = Bytes(text)

\* the query is empty or whitespace only
Blank(q) == Trim(q) = <<>>

\* the query is not blank and does not parse
Malformed(q) == ~Blank(q) /\ ~parse_filter(q).ok

\* the malformed queries among those the user commits
MalformedQueries == {q \in Queries : Malformed(q)}

\* the blank queries among those the user commits
BlankQueries == {q \in Queries : Blank(q)}

\* C5: a filter or highlight query that fails to parse leaves the active
\* expression in effect and records the error: filter_expr (highlight_expr),
\* filtered_indices and scroll_offset are unchanged.
C5_ParseFailureKeepsExpression ==
  [][ \A q \in MalformedQueries :
        /\ (app'.filter_input = q /\ ApplyFilterStep(q)) =>
             /\ app'.filter_expr = app.filter_expr
             /\ app'.filtered_indices = app.filtered_indices
             /\ app'.scroll_offset = app.scroll_offset
             /\ app'.lines = app.lines
             /\ app'.filter_error = "ParseError"
        /\ (app'.highlight_input = q /\ ApplyHighlightStep(q)) =>
             /\ app'.highlight_expr = app.highlight_expr
             /\ app'.highlight_error = "ParseError"
             /\ app'.filtered_indices = app.filtered_indices ]_vars

C5_Witness ==
  /\ Malformed(app.filter_input)
  /\ app.filter_error = "ParseError"
  /\ app.filter_expr # NoExpr
  /\ app.scroll_offset > 0
  /\ Malformed(app.highlight_input)
  /\ app.highlight_error = "ParseError"
  /\ app.highlight_expr # NoExpr

\* line i (0-based) passes the active filter
Passes(i) ==
  app.filter_expr = NoExpr \/ expr_matches(app.filter_expr, app.lines[i + 1])

\* C6: filtered_indices is the strictly ascending list of exactly the
\* indices of the lines that the active filter_expr matches (all of them
\* when no filter is active).
C6_ShownIffPasses ==
  /\ \A k \in 1..Len(app.filtered_indices) :
       /\ app.filtered_indices[k] \in 0..(Len(app.lines) - 1)
       /\ Passes(app.filtered_indices[k])
       /\ k > 1 => app.filtered_indices[k - 1] < app.filtered_indices[k]
  /\ \A i \in 0..(Len(app.lines) - 1) :
       Passes(i) => \E k \in 1..Len(app.filtered_indices) :
                      app.filtered_indices[k] = i

C6_Witness ==
  /\ app.filter_expr # NoExpr
  /\ Malformed(app.filter_input)
  /\ app.status_message = "Source error"
  /\ Len(app.lines) = 2
  /\ app.filtered_indices = <<1>>

\* C7: an empty or whitespace-only query is "no filter", never a parse
\* error: the expression becomes none, the error string is cleared and, for
\* the filter, every stored line is visible.
C7_BlankQueryIsNoFilter ==
  [][ \A q \in BlankQueries :
        /\ (app'.filter_input = q /\ ApplyFilterStep(q)) =>
             /\ app'.filter_expr = NoExpr
             /\ app'.filter_error = "None"
             /\ app'.lines = app.lines
             /\ app'.filtered_indices = [k \in 1..Len(app.lines) |-> k - 1]
        /\ (app'.highlight_input = q /\ ApplyHighlightStep(q)) =>
             /\ app'.highlight_expr = NoExpr
             /\ app'.highlight_error = "None" ]_vars

C7_Witness ==
  /\ app.filter_input # <<>> /\ Blank(app.filter_input)
  /\ app.highlight_input # <<>> /\ Blank(app.highlight_input)
  /\ app.filter_expr = NoExpr /\ app.filter_error = "None"
  /\ app.highlight_expr = NoExpr /\ app.highlight_error = "None"
  /\ Len(app.lines) = 2
  /\ app.filtered_indices = <<0, 1>>

\* C8: every span highlight_line returns is a pair of character offsets
\* with start <= end <= the number of characters of the line.
C8_SpansAreCharacterRanges ==
  pc \in {"spans", "done"} /\ origin = "pipeline" =>
    \A j \in 1..Len(spans) :
      spans[j].start <= spans[j].end /\ spans[j].end <= Len(text)

\* the characters of the text a span was computed for: Match::start(),
\* Match::end() and the offsets of the JSON tokens count bytes
MatchedChars(t, s) ==
  {ci \in 0..(Len(t) - 1) :
     s.start <= SumWidth(t, ci) /\ SumWidth(t, ci + 1) <= s.end}

\* C9: with no custom filter, the characters that highlight_line followed by
\* apply_highlights styles are exactly the characters of the texts matched
\* by a heuristic rule or a structured-value token.
C9_StyledRunIsMatchedText ==
  pc = "done" /\ origin = "pipeline" /\ cfg.custom_filter = NoExpr =>
    \A ci \in 0..(Len(text) - 1) :
      (OutStyleAt(result.runs, SumWidth(text, ci)) # "None")
        <=> (\E j \in 1..Len(spans) : ci \in MatchedChars(text, spans[j]))

JsonStyles == {"JsonKey", "JsonString", "JsonNumber", "JsonBool", "JsonNull"}

\* the spans of the given styles that cover character ci
CoveringOf(ss, ci, styles) ==
  {j \in Covering(ss, ci) : ss[j].style \in styles}

\* C10 as stated: a character covered by a filter match is output as
\* custom-filter-highlight, and one covered by a structured-value token and
\* no filter match is output with that token's category.
C10_TokenCategoryWins ==
  pc = "done" /\ origin = "pipeline" =>
    \A ci \in 0..(Len(text) - 1) :
      LET out == OutStyleAt(result.runs, SumWidth(text, ci))
      IN  IF CoveringOf(spans, ci, {"CustomHighlight"}) # {}
          THEN out = "CustomHighlight"
          ELSE \A j \in CoveringOf(spans, ci, JsonStyles) :
                 out = spans[j].style

\* C10, amended: a character covered by the span of a filter match is output
\* as custom-filter-highlight, and one covered by spans of structured-value
\* tokens and by no filter span is output with the category of one of those
\* tokens, never with a heuristic category.
C10_HeuristicIsLowest ==
  pc = "done" /\ origin = "pipeline" =>
    \A ci \in 0..(Len(text) - 1) :
      LET out == OutStyleAt(result.runs, SumWidth(text, ci))
      IN  IF CoveringOf(spans, ci, {"CustomHighlight"}) # {}
          THEN out = "CustomHighlight"
          ELSE CoveringOf(spans, ci, JsonStyles) # {} =>
                 \E j \in CoveringOf(spans, ci, JsonStyles) :
                   out = spans[j].style

HeuristicStyles ==
  {"Error", "Warning", "Info", "Debug", "Bracket", "Timestamp"}

C10_Witness ==
  /\ pc = "done"
  /\ origin = "pipeline"
  /\ \E ci \in 0..(Len(text) - 1) :
       /\ CoveringOf(spans, ci, {"CustomHighlight"}) # {}
       /\ CoveringOf(spans, ci, JsonStyles) # {}
       /\ CoveringOf(spans, ci, HeuristicStyles) # {}
       /\ OutStyleAt(result.runs, SumWidth(text, ci)) = "CustomHighlight"
  /\ \E ci \in 0..(Len(text) - 1) :
       /\ CoveringOf(spans, ci, {"CustomHighlight"}) = {}
       /\ CoveringOf(spans, ci, JsonStyles) # {}
       /\ CoveringOf(spans, ci, HeuristicStyles) # {}
       /\ OutStyleAt(result.runs, SumWidth(text, ci)) \in JsonStyles

----------------------------------------------------------------------------
(* Reading the structured values of a line                                 *)

\* highlight_line has run on the line with structured highlighting enabled
JsonHighlighted ==
  pc \in {"spans", "done"} /\ origin = "pipeline" /\ cfg.json_enabled

\* the structured region of a value recorded by find_all_json
Region(t, o) == StrSlice(t, o.start, o.start + o.len)

RECURSIVE ObjectKeys(_)
\* the keys of the objects of a parsed value, at any depth
ObjectKeys(v) ==
  CASE v.k = "Object" ->
         {v.members[i].key : i \in 1..Len(v.members)}
           \cup UNION {ObjectKeys(v.members[i].val) : i \in 1..Len(v.members)}
    [] v.k = "Array" -> UNION {ObjectKeys(v.items[i]) : i \in 1..Len(v.items)}
    [] OTHER -> {}

RECURSIVE StringValues(_)
\* the string values of a parsed value, at any depth
StringValues(v) ==
  CASE v.k = "Object" ->
         UNION {StringValues(v.members[i].val) : i \in 1..Len(v.members)}
    [] v.k = "Array" -> UNION {StringValues(v.items[i]) : i \in 1..Len(v.items)}
    [] v.k = "String" -> {v.s}
    [] OTHER -> {}

\* the occurrence of pat at character offset i of r is followed, ignoring
\* whitespace, by a colon
ColonFollows(r, pat, i) ==
  StartsWith(TrimStart(SubSeq(r, i + Len(pat) + 1, Len(r))), <<":">>)

\* the character offsets of the occurrences of pat in r that are (key = TRUE)
\* or are not (key = FALSE) followed by a colon
PositionsOf(r, pat, key) ==
  {i \in Occurrences(r, pat) : ColonFollows(r, pat, i) = key}

\* the least element of a non-empty set of numbers
Least(S) == CHOOSE i \in S : \A k \in S : i <= k

\* the span of the given style that starts at character offset i of the
\* region of o and holds the quoted word w; offsets count bytes, as
\* highlight_json_value emits them
QuotedSpanAt(t, o, i, w, style) ==
  MkSpan(o.start + SumWidth(Region(t, o), i),
         o.start + SumWidth(Region(t, o), i) + ByteLen(w) + 2, style, 50)

\* C11: for every key of a parsed object, the detector tags the first
\* occurrence, within the structured region, of the quoted key that is
\* followed (ignoring whitespace) by a colon, even when the same quoted text
\* occurs earlier as a string value.
C11_KeyTaggedAtFirstColonOccurrence ==
  JsonHighlighted =>
    \A n \in 1..Len(find_all_json(text)) :
      LET o == find_all_json(text)[n]
      IN  \A key \in ObjectKeys(o.value) :
            LET P == PositionsOf(Region(text, o), Quoted(key), TRUE)
            IN  /\ P # {}
                /\ \E j \in 1..Len(spans) :
                     spans[j] = QuotedSpanAt(text, o, Least(P), key, "JsonKey")

\* C12 as stated: for every string value of a parsed structured value, the
\* detector tags the first occurrence of the quoted string within the
\* structured region.
C12_StringTaggedAtFirstOccurrence ==
  JsonHighlighted =>
    \A n \in 1..Len(find_all_json(text)) :
      LET o == find_all_json(text)[n]
      IN  \A s \in StringValues(o.value) :
            LET P == Occurrences(Region(text, o), Quoted(s))
            IN  /\ P # {}
                /\ \E j \in 1..Len(spans) :
                     spans[j] = QuotedSpanAt(text, o, Least(P), s, "JsonString")

\* the json-string spans a line's structured values call for: for every
\* string value, the first occurrence of the quoted string in the region
\* that no colon follows
ValueOccurrenceSpans(t) ==
  LET R == find_all_json(t)
  IN  UNION { { QuotedSpanAt(t, R[n],
                  Least(PositionsOf(Region(t, R[n]), Quoted(s), FALSE)),
                  s, "JsonString") : s \in StringValues(R[n].value) } :
              n \in 1..Len(R) }

\* C12, amended: for every string value of a parsed structured value, the
\* detector tags the first occurrence of the quoted string within the
\* structured region that is not followed (ignoring whitespace) by a colon,
\* and tags no other place as a string.
C12_StringTaggedAtFirstValueOccurrence ==
  JsonHighlighted =>
    /\ \A n \in 1..Len(find_all_json(text)) :
         \A s \in StringValues(find_all_json(text)[n].value) :
           PositionsOf(Region(text, find_all_json(text)[n]), Quoted(s), FALSE)
             # {}
    /\ {spans[j] : j \in {i \in 1..Len(spans) : spans[i].style = "JsonString"}}
         = ValueOccurrenceSpans(text)

\* a string value whose quoted text occurs earlier in the region as a key
C12_Witness ==
  /\ JsonHighlighted
  /\ \E n \in 1..Len(find_all_json(text)) :
       LET o == find_all_json(text)[n]
       IN  \E s \in StringValues(o.value) :
             /\ \E i \in PositionsOf(Region(text, o), Quoted(s), TRUE) :
                  i < Least(PositionsOf(Region(text, o), Quoted(s), FALSE))
             /\ \E j \in 1..Len(spans) :
                  spans[j] =
                    QuotedSpanAt(text, o,
                      Least(PositionsOf(Region(text, o), Quoted(s), FALSE)),
                      s, "JsonString")

DuplicateValueText ==
  <<"{", "\"", "a", "\"", ":", "\"", "x", "\"", ",",
    "\"", "b", "\"", ":", "\"", "x", "\"", "}">>

\* the indices of the json-string spans
JsonStringSpans == {j \in 1..Len(spans) : spans[j].style = "JsonString"}

\* C13: when one string value occurs under two keys of an object, as in
\* {"a":"x","b":"x"}, the json-string span of the second key's value is the
\* range of the first occurrence, the one emitted for the first key's value,
\* and the second occurrence gets no json-string span.
C13_DuplicateValueRetagsFirst ==
  JsonHighlighted =>
    /\ \A n \in 1..Len(find_all_json(text)) :
         LET o == find_all_json(text)[n]
         IN  \A s \in StringValues(o.value) :
               LET P == PositionsOf(Region(text, o), Quoted(s), FALSE)
               IN  \A i \in P \ {Least(P)} :
                     \A j \in JsonStringSpans :
                       spans[j].start # QuotedSpanAt(text, o, i, s, "").start
    /\ text = DuplicateValueText =>
         /\ Cardinality(JsonStringSpans) = 2
         /\ \A j \in JsonStringSpans : spans[j] = MkSpan(5, 8, "JsonString", 50)

C13_Witness ==
  /\ JsonHighlighted
  /\ text = DuplicateValueText
  /\ Cardinality(JsonStringSpans) = 2
  /\ \A j \in JsonStringSpans : spans[j].start = 5 /\ spans[j].end = 8
  /\ \A j \in 1..Len(spans) : spans[j].start # 13

\* the character indices (1-based) of the '{' and '[' of t
Brackets(t) == {k \in 1..Len(t) : t[k] \in {"{", "["}}

\* the byte offsets of the brackets of t at which one structured value
\* parses
ParsableStarts(t) ==
  {SumWidth(t, k - 1) :
     k \in {i \in Brackets(t) : StreamNext(SubSeq(t, i, Len(t))).ok}}

\* byte offset p lies inside a region of R that starts before it
InsideEarlier(R, p) ==
  \E n \in 1..Len(R) : R[n].start < p /\ p < R[n].start + R[n].len

\* C14: the regions find_all_json records each start at a '{' or '[' and
\* span the value parsed there; they do not overlap and their starts
\* strictly increase; every bracket that starts a parsable value and is not
\* inside an earlier recorded region starts a recorded region.
C14_RegionsLeftToRight ==
  JsonHighlighted =>
    LET R == find_all_json(text)
    IN  /\ \A n \in 1..Len(R) :
             /\ R[n].start \in {SumWidth(text, k - 1) : k \in Brackets(text)}
             /\ R[n].start \in ParsableStarts(text)
             /\ R[n].len = StreamNext(StrFrom(text, R[n].start)).end
             /\ R[n].len >= 2
             /\ R[n].start + R[n].len <= ByteLen(text)
        /\ \A n \in 1..(Len(R) - 1) :
             R[n].start + R[n].len <= R[n + 1].start
        /\ \A p \in ParsableStarts(text) :
             (\E n \in 1..Len(R) : R[n].start = p) <=> ~InsideEarlier(R, p)

\* two values on one line, after a bracket at which nothing parses, with a
\* parsable bracket inside the first recorded region
C14_Witness ==
  /\ JsonHighlighted
  /\ Len(find_all_json(text)) = 2
  /\ \E k \in Brackets(text) :
       SumWidth(text, k - 1) \notin ParsableStarts(text)
  /\ \E p \in ParsableStarts(text) : InsideEarlier(find_all_json(text), p)
  /\ \E j \in 1..Len(spans) :
       spans[j].start > find_all_json(text)[2].start

\* C15: in the output of apply_highlights no two adjacent runs have the
\* same category, and no run has empty text, except the single run of
\* category "None" that stands for a line without spans.
C15_RunsAreMaximal ==
  pc = "done" =>
    /\ \A i \in 1..(Len(result.runs) - 1) :
         result.runs[i].style # result.runs[i + 1].style
    /\ \A i \in 1..Len(result.runs) :
         result.runs[i].text = <<>> =>
           /\ Len(result.runs) = 1
           /\ result.runs[1].style = "None"
           /\ spans = <<>>
           /\ text = <<>>

\* four or more runs on a line with multi-byte characters, where a category
\* returns after a run of another one
C15_Witness ==
  /\ pc = "done"
  /\ HasMultiByte(text)
  /\ Len(spans) = 2
  /\ Len(result.runs) >= 4
  /\ \E i \in 1..(Len(result.runs) - 2) :
       result.runs[i].style = result.runs[i + 2].style

RECURSIVE SubExprs(_)
\* the nodes of an expression tree
SubExprs(e) ==
  {e} \cup
    CASE e.k \in {"And", "Or"} -> SubExprs(e.l) \cup SubExprs(e.r)
      [] e.k \in {"Not", "Group"} -> SubExprs(e.inner)
      [] OTHER -> {}

\* the literals of the tree that the line contains
TrueLiterals(e, line) ==
  {n.pat : n \in {m \in SubExprs(e) :
                    m.k = "Literal" /\ LiteralOccurrences(m.pat, line) # {}}}

RECURSIVE Eval(_, _)
\* the tree as a boolean formula, T being the literals that are true
Eval(e, T) ==
  CASE e.k = "Literal" -> e.pat \in T
    [] e.k = "And" -> Eval(e.l, T) /\ Eval(e.r, T)
    [] e.k = "Or" -> Eval(e.l, T) \/ Eval(e.r, T)
    [] e.k = "Not" -> ~Eval(e.inner, T)
    [] e.k = "Group" -> Eval(e.inner, T)

\* parse(query).matches(line)
QueryMatches(q, line) == expr_matches(parse_filter(q).expr, line)

BooleanExamples ==
  /\ QueryMatches(<<"e", "r", "r", "o", "r", " ", "O", "R", " ", "w", "a", "r", "n", "i", "n",
                   "g">>,
                  <<"s", "o", "m", "e", "t", "h", "i", "n", "g", " ", "w", "a", "r", "n", "i",
                   "n", "g", " ", "h", "e", "r", "e">>)
  /\ ~QueryMatches(<<"e", "r", "r", "o", "r", " ", "A", "N", "D", " ", "d", "o", "n", "e">>,
                   <<"e", "r", "r", "o", "r", " ", "o", "n", "l", "y">>)
  /\ ~QueryMatches(<<"e", "r", "r", "o", "r", " ", "A", "N", "D", " ", "d", "o", "n", "e">>,
                   <<"a", "l", "l", " ", "d", "o", "n", "e">>)
  /\ QueryMatches(<<"e", "r", "r", "o", "r", " ", "A", "N", "D", " ", "d", "o", "n", "e">>,
                  <<"e", "r", "r", "o", "r", ":", " ", "d", "o", "n", "e">>)
  /\ ~QueryMatches(<<"N", "O", "T", " ", "d", "e", "b", "u", "g">>,
                   <<"d", "e", "b", "u", "g", " ", "t", "r", "a", "c", "e">>)
  /\ QueryMatches(<<"N", "O", "T", " ", "d", "e", "b", "u", "g">>,
                  <<"i", "n", "f", "o", " ", "o", "n", "l", "y">>)

\* the kinds of the nodes of the active filter
FilterKinds == {n.k : n \in SubExprs(app.filter_expr)}

RECURSIVE PositiveLiterals(_)
\* the patterns of the literals of the tree that are under no Not
PositiveLiterals(e) ==
  CASE e.k = "Literal" -> {e.pat}
    [] e.k \in {"And", "Or"} -> PositiveLiterals(e.l) \cup PositiveLiterals(e.r)
    [] e.k = "Group" -> PositiveLiterals(e.inner)
    [] OTHER -> {}

\* the patterns of the literals of the tree that are under a Not
NegatedLiterals(e) ==
  UNION {{m.pat : m \in {l \in SubExprs(n.inner) : l.k = "Literal"}} :
           n \in {m \in SubExprs(e) : m.k = "Not"}}

\* the indices of the spans of filter matches
CustomSpans == {j \in 1..Len(spans) : spans[j].style = "CustomHighlight"}

\* highlight_line has run on the line with a highlight expression
FilterHighlighted ==
  pc \in {"spans", "done"} /\ origin = "pipeline" /\ cfg.custom_filter # NoExpr

NotErrorExample ==
  find_all_matches(parse_filter(<<"N", "O", "T", " ", "e", "r", "r", "o", "r">>).expr,
                   <<"n", "o", " ", "e", "r", "r", "o", "r", " ", "h", "e", "r", "e">>)
    = <<>>

TokenSpans(t, n) ==
  LET o == find_all_json(t)[n]
  IN  highlight_json_value(Region(t, o), o.value, o.start, <<>>)

\* span s lies inside the region of o
InsideRegion(s, o) == o.start <= s.start /\ s.end <= o.start + o.len

\* the indices of the spans of structured-value tokens
JsonSpans == {j \in 1..Len(spans) : spans[j].style \in JsonStyles}

\* C18: every span emitted for a token of a parsed structured value lies
\* inside the region of that value: its start is at or after the region's
\* start and its end at or before the region's end, for keys, strings,
\* numbers, booleans and nulls alike.
C18_TokenSpansInsideRegion ==
  JsonHighlighted =>
    /\ \A n \in 1..Len(find_all_json(text)) :
         \A j \in 1..Len(TokenSpans(text, n)) :
           /\ TokenSpans(text, n)[j].start < TokenSpans(text, n)[j].end
           /\ InsideRegion(TokenSpans(text, n)[j], find_all_json(text)[n])
    /\ \A j \in JsonSpans :
         \E n \in 1..Len(find_all_json(text)) :
           InsideRegion(spans[j], find_all_json(text)[n])

\* a region that starts after a multi-byte character, with a key tagged at
\* its start and a string tagged up to its closing bracket
C18_Witness ==
  /\ JsonHighlighted
  /\ HasMultiByte(text)
  /\ \E n \in 1..Len(find_all_json(text)) :
       LET o == find_all_json(text)[n]
       IN  /\ o.start > 0
           /\ \E j \in JsonSpans :
                spans[j].style = "JsonKey" /\ spans[j].start = o.start + 1
           /\ \E j \in JsonSpans :
                /\ spans[j].style = "JsonString"
                /\ spans[j].end = o.start + o.len - 1

----------------------------------------------------------------------------
(* Claims about LogState                                                   *)

\* the position of the last entry of filtered_indices, 0 for an empty list
LastFiltered(self) ==
  IF self.filtered_indices = <<>> THEN 0 ELSE Len(self.filtered_indices) - 1

\* C19: in every reachable state of LogState get_bottom_line_idx returns an
\* index that is at most len(filtered_indices) - 1 (0 for the empty list),
\* and exactly the last filtered index while follow_tail is true.
C19_BottomIndexInRange ==
  pc = "log" =>
    /\ get_bottom_line_idx(log_state) \in 0..LastFiltered(log_state)
    /\ log_state.follow_tail =>
         get_bottom_line_idx(log_state) = LastFiltered(log_state)
    /\ ~log_state.follow_tail
         /\ log_state.bottom_line_idx <= LastFiltered(log_state) =>
           get_bottom_line_idx(log_state) = log_state.bottom_line_idx

\* the stored index is stale: the list was shortened after scrolling
C19_Witness ==
  /\ pc = "log"
  /\ ~log_state.follow_tail
  /\ Len(log_state.filtered_indices) = 1
  /\ log_state.bottom_line_idx > LastFiltered(log_state)
  /\ get_bottom_line_idx(log_state) = 0

\* C20: follow_tail changes only so: scroll_up and scroll_to_start set it to
\* false, scroll_to_end sets it to true, scroll_down changes no field while
\* it is true and otherwise sets it to true exactly when the resulting
\* bottom_line_idx has reached the last filtered index; add_line, clear and
\* an assignment of filtered_indices leave it as it is.
C20_FollowTailChanges ==
  [][ /\ LogScrollUp => ~log_state'.follow_tail
      /\ LogScrollToStart => ~log_state'.follow_tail
      /\ LogScrollToEnd => log_state'.follow_tail
      /\ LogScrollDown /\ log_state.follow_tail => log_state' = log_state
      /\ LogScrollDown /\ ~log_state.follow_tail =>
           /\ log_state'.follow_tail <=>
                log_state'.bottom_line_idx = LastFiltered(log_state')
           /\ log_state'.bottom_line_idx <= LastFiltered(log_state')
           /\ log_state'.filtered_indices = log_state.filtered_indices
           /\ log_state'.lines = log_state.lines
      /\ LogAddLine \/ LogClear \/ LogSetFiltered =>
           log_state'.follow_tail = log_state.follow_tail ]_vars

\* scrolled down from the start without reaching the tail
C20_Witness ==
  /\ pc = "log"
  /\ ~log_state.follow_tail
  /\ log_state.bottom_line_idx > 0
  /\ log_state.bottom_line_idx < LastFiltered(log_state)

\* scroll_down(k) has just run, right after a scroll_up(k) that started
\* with follow_tail set
UpThenDown ==
  pc = "log" /\ last_call.op = "scroll_down" /\ last_call.from_tail

\* C21: from a LogState with follow_tail set, scroll_up(k) followed by
\* scroll_down(k), with filtered_indices untouched in between, restores tail
\* following for every k and every list length: follow_tail is true and
\* bottom_line_idx is the last filtered index (0 for an empty list).
C21_UpThenDownRestoresTail ==
  UpThenDown =>
    /\ log_state.follow_tail
    /\ log_state.bottom_line_idx = LastFiltered(log_state)
    /\ get_bottom_line_idx(log_state) = LastFiltered(log_state)

\* scrolled up by less than the list holds, and down again
C21_Witness ==
  /\ UpThenDown
  /\ last_call.amount = 1
  /\ Len(log_state.filtered_indices) = 3
  /\ log_state.follow_tail
  /\ log_state.bottom_line_idx = 2

\* selected_idx names an entry of addr_list
SelectionInRange(self) == self.selected_idx < Len(self.addr_list)

\* the cell (x, y) lies in the popup area of self
InsidePopup(self, x, y) ==
  /\ self.popup_area # <<>>
  /\ self.popup_area[1] <= x
  /\ x < self.popup_area[1] + self.popup_area[3]
  /\ self.popup_area[2] <= y
  /\ y < self.popup_area[2] + self.popup_area[4]

\* an address of self is drawn on line y of the screen
OnAddressRow(self, y) ==
  /\ self.popup_area # <<>>
  /\ \E i \in 1..Len(self.addr_list) :
       self.popup_area[2] + self.addr_list[i].row = y

\* the step just taken is a call of select_next, select_prev or handle_click
SelectionCall ==
  listen_call'.op \in {"select_next", "select_prev", "handle_click"}

C22_Step ==
  SelectionCall =>
    /\ listen_state'.addr_list = listen_state.addr_list
    /\ SelectionInRange(listen_state) => SelectionInRange(listen_state')
    /\ ( /\ listen_call'.op = "select_next"
         /\ listen_state.selected_idx + 1 = Len(listen_state.addr_list) )
       => listen_state'.selected_idx = 0
    /\ ( /\ listen_call'.op = "select_prev"
         /\ SelectionInRange(listen_state)
         /\ listen_state.selected_idx = 0 )
       => listen_state'.selected_idx + 1 = Len(listen_state.addr_list)
    /\ ( /\ listen_call'.op = "select_prev"
         /\ listen_call'.origin # -1
         /\ listen_call'.origin < Len(listen_state.addr_list) )
       => listen_state'.selected_idx = listen_call'.origin
    /\ ( /\ listen_call'.op = "handle_click"
         /\ \/ ~InsidePopup(listen_state, listen_call'.cell[1],
                             listen_call'.cell[2])
            \/ ~OnAddressRow(listen_state, listen_call'.cell[2]) )
       => /\ ~listen_call'.returned.some
          /\ listen_state'.selected_idx = listen_state.selected_idx

\* C22: a call of select_next, select_prev or handle_click leaves addr_list
\* alone and keeps selected_idx < len(addr_list) if it held before;
\* select_next on the last entry selects entry 0, select_prev on entry 0
\* selects the last entry, a select_prev right after a select_next that
\* started in range selects the entry selected before the two calls, and a
\* handle_click on a cell outside popup_area (or with no popup_area) or on
\* a line with no address returns None and leaves selected_idx unchanged.
C22_SelectionStaysInRange == [][C22_Step]_vars

\* A click inside the popup on the line between the first and the second
\* address, while the last of three addresses is selected, returned None.
C22_Witness ==
  /\ pc = "listen"
  /\ listen_call.op = "handle_click"
  /\ InsidePopup(listen_state, listen_call.cell[1], listen_call.cell[2])
  /\ ~OnAddressRow(listen_state, listen_call.cell[2])
  /\ Len(listen_state.addr_list) = 3
  /\ listen_state.port # -1
  /\ listen_state.selected_idx = 2
  /\ listen_call.before = 2
  /\ ~listen_call.returned.some

\* the byte offset of the first '{' or '[' of t at or after byte offset from
NextBracketFrom(t, from) ==
  Least({SumWidth(t, k - 1) : k \in Brackets(t)} \cap from..ByteLen(t))

\* the step just taken is an iteration of the loop of find_all_json
ScanIteration == pc = "find_all_json" /\ scan'.attempts = scan.attempts + 1

\* the step just taken is an iteration of the coalescing loop
CoalesceIteration == pc = "coalesce" /\ result' # result

C23_Advance ==
  /\ ScanIteration =>
       LET abs_pos == NextBracketFrom(text, scan.search_start)
           n == Len(scan'.results)
       IN  /\ scan'.search_start > scan.search_start
           /\ \/ /\ scan'.results = scan.results
                 /\ scan'.search_start = abs_pos + 1
              \/ /\ n = Len(scan.results) + 1
                 /\ SubSeq(scan'.results, 1, n - 1) = scan.results
                 /\ scan'.results[n].start = abs_pos
                 /\ scan'.results[n].len >= 2
                 /\ scan'.search_start = abs_pos + scan'.results[n].len
  /\ CoalesceIteration =>
       /\ scan'.pos > scan.pos
       /\ scan'.pos <= ByteLen(text)
       /\ Len(result'.runs) = Len(result.runs) + 1

C23_Bounded ==
  /\ scan.attempts <= Cardinality(Brackets(text))
  /\ scan.search_start <= ByteLen(text)
  /\ scan.pos <= ByteLen(text)
  /\ pc = "found" => scan.results = find_all_json(text)
  /\ pc = "returned" =>
       /\ ~result.panic
       /\ result = apply_highlights(text, spans)
       /\ scan.pos = ByteLen(text)

\* both calls have returned
ScanReturned == pc \in {"found", "returned"}

\* C23: every iteration of the loop of find_all_json moves search_start
\* forward, past the bracket by 1 after a failed parse and by the consumed
\* length, at least 2, after a successful one, so that there are never more
\* parse attempts than brackets in the line, and the loop ends with what
\* find_all_json returns; every iteration of the coalescing loop of
\* apply_highlights moves pos forward, and the loop ends with pos at the
\* line's byte length; both calls return for every line.
C23_LoopsTerminate ==
  /\ []C23_Bounded
  /\ [][C23_Advance]_vars
  /\ <>ScanReturned

\* A line with four brackets, scanned with three parse attempts, two of
\* them successful.
C23_Witness ==
  /\ pc = "found"
  /\ Cardinality(Brackets(text)) = 4
  /\ scan.attempts = 3
  /\ Len(scan.results) = 2
  /\ scan.search_start = ByteLen(text)

====
